---- MODULE Spec2Model ----
(***************************************************************************)
(* Rusti-DB: an append-only log file (BitcaskStorage) with an in-memory    *)
(* catalog and value-keyed secondary indexes, and the query executor that  *)
(* maps parsed statements onto it.                                         *)
(*                                                                         *)
(* The data file is modelled byte by byte.  Strings (table names, column   *)
(* names, Text payloads, index keys) are sequences of byte codes.          *)
(***************************************************************************)
EXTENDS Integers, Sequences, FiniteSets, TLC

(***************************************************************************)
(* Bounds of the model.                                                    *)
(***************************************************************************)
\* Number of records a behaviour may append to the file.
MaxAppends == 4
\* The same, for the behaviours that only create tables, insert and scan.
MaxLogAppends == 5
\* The same, for the behaviours driven through the executor.
MaxExecAppends == 3
\* Records a behaviour of SpecWhere writes at most.
MaxWhereAppends == 3
\* Records written before the last INSERT statement of a behaviour of
\* SpecInsert starts.
MaxInsertAppends == 4
\* Records a behaviour of SpecStatements writes at most.
MaxStatementAppends == 3
\* Number of times the engine may be reopened on the file it left behind.
MaxReopens == 1
\* Records appended after the engine is opened on a damaged file.
MaxDamagedAppends == 2
\* Records appended in the runs that read rows at arbitrary offsets.
MaxPointAppends == 2
\* Read-ahead of one BufReader refill.  std::io::BufReader reads up to its
\* capacity (8192 bytes) from the file per refill; the model scales the
\* capacity down so that files longer than one read-ahead fit the bounds.
BufCap == 40

(***************************************************************************)
(* Byte-level helpers.                                                     *)
(***************************************************************************)
Min(a, b) == IF a < b THEN a ELSE b

\* A decoded length that exceeds every file of the model.  Four or eight
\* length bytes with a non-zero byte above the second one decode to this.
TooBig == 256 * 256

RECURSIVE LeBytes(_, _)
\* n.to_le_bytes() on `width` bytes (two's complement for negative n).
LeBytes(n, width) ==
    IF width = 0 THEN << >>
    ELSE << n % 256 >> \o LeBytes(n \div 256, width - 1)

\* u16/u32/u64::from_le_bytes, clamped to TooBig.
FromLeBytes(bs) ==
    IF \E i \in 3..Len(bs) : bs[i] # 0 THEN TooBig
    ELSE IF Len(bs) = 1 THEN bs[1]
    ELSE bs[1] + 256 * bs[2]

\* i64::from_le_bytes (two's complement): exact for a value of at most 31
\* bits and for a negative one of 16 bits, clamped to TooBig otherwise.
FromLeSigned(bs) ==
    IF \A i \in 3..Len(bs) : bs[i] = 0 THEN bs[1] + 256 * bs[2]
    ELSE IF \A i \in 3..Len(bs) : bs[i] = 255 THEN bs[1] + 256 * bs[2] - 65536
    ELSE IF Len(bs) >= 4 /\ bs[4] < 128 /\ \A i \in 5..Len(bs) : bs[i] = 0
    THEN bs[1] + 256 * bs[2] + 65536 * bs[3] + 16777216 * bs[4]
    ELSE TooBig

(***************************************************************************)
(* Value / schema model (storage/types.rs).                                *)
(***************************************************************************)
\* ColumnType variants, in declaration order (the serialized variant index
\* is the position minus one).
ColumnTypes == << "Integer", "Text", "Float" >>

\* Value variants, in declaration order.
ValueTags == << "Integer", "Text", "Float", "Null" >>

\* Value::Integer(i), Value::Text(s), Value::Float(f), Value::Null.
\* A Float carries the number of halves it stands for (2 is 1.0, 3 is 1.5);
\* OtherFloat stands for every f64 outside the modelled domain.
IntegerV(i) == [tag |-> "Integer", v |-> i]
TextV(s) == [tag |-> "Text", v |-> s]
FloatV(h) == [tag |-> "Float", v |-> h]
NullV == [tag |-> "Null", v |-> 0]
OtherFloat == 0 - 1

VariantIndex(tags, tag) == (CHOOSE i \in 1..Len(tags) : tags[i] = tag) - 1

RECURSIVE Decimal(_)
\* Decimal digits of a natural number, as byte codes.
Decimal(n) ==
    IF n < 10 THEN << 48 + n >>
    ELSE Decimal(n \div 10) \o << 48 + (n % 10) >>

\* i64::to_string
IntToString(i) == IF i < 0 THEN << 45 >> \o Decimal(0 - i) ELSE Decimal(i)

\* f64::to_string for the modelled floats: 1.0 prints as "1", 1.5 as "1.5".
FloatToString(h) ==
    IF h = OtherFloat THEN << 63 >>
    ELSE LET whole == Decimal(h \div 2)
         IN IF h % 2 = 0 THEN whole ELSE whole \o << 46, 53 >>

\* "Null"
NullString == << 78, 117, 108, 108 >>

\* Value::to_string
ValueToString(val) ==
    CASE val.tag = "Integer" -> IntToString(val.v)
      [] val.tag = "Text" -> val.v
      [] val.tag = "Float" -> FloatToString(val.v)
      [] OTHER -> NullString

\* Value::matches_type
MatchesType(val, colType) ==
    \/ val.tag = "Integer" /\ colType = "Integer"
    \/ val.tag = "Text" /\ colType = "Text"
    \/ val.tag = "Float" /\ colType = "Float"
    \/ val.tag = "Null"

\* TableSchema::get_column_index: position (from 0) of the first column of
\* that name, or -1 for None.
GetColumnIndex(columns, name) ==
    IF \E i \in 1..Len(columns) : columns[i].name = name
    THEN (CHOOSE i \in 1..Len(columns) :
              /\ columns[i].name = name
              /\ \A j \in 1..(i - 1) : columns[j].name # name) - 1
    ELSE -1

\* validate_row without the per-position type check.
ValidateRowArityOnly(columns, row) == Len(row) = Len(columns)

\* TableSchema::validate_row: arity first, then each position's type.
ValidateRow(columns, row) ==
    /\ Len(row) = Len(columns)
    /\ \A i \in 1..Len(row) : MatchesType(row[i], columns[i].column_type)

\* Row::get
RowGet(row, idx) == IF idx + 1 \in 1..Len(row) THEN row[idx + 1] ELSE NullV
RowHas(row, idx) == idx + 1 \in 1..Len(row)

(***************************************************************************)
(* Record payloads (bincode, fixed-width little-endian integers).          *)
(***************************************************************************)
\* f64::to_le_bytes for the modelled floats.
F64Bytes(h) ==
    CASE h = 0 -> << 0, 0, 0, 0, 0, 0, 0, 0 >>
      [] h = 1 -> << 0, 0, 0, 0, 0, 0, 224, 63 >>
      [] h = 2 -> << 0, 0, 0, 0, 0, 0, 240, 63 >>
      [] h = 3 -> << 0, 0, 0, 0, 0, 0, 248, 63 >>
      [] h = 4 -> << 0, 0, 0, 0, 0, 0, 0, 64 >>
      [] OTHER -> << 1, 0, 0, 0, 0, 0, 0, 0 >>

\* f64::from_le_bytes
F64FromBytes(bs) ==
    IF \E h \in 0..4 : F64Bytes(h) = bs
    THEN CHOOSE h \in 0..4 : F64Bytes(h) = bs
    ELSE OtherFloat

\* A String: u64 length, then the bytes.
SerString(s) == LeBytes(Len(s), 8) \o s

\* One Value: u32 variant index, then the payload.
SerValue(val) ==
    LeBytes(VariantIndex(ValueTags, val.tag), 4) \o
    (CASE val.tag = "Integer" -> LeBytes(val.v, 8)
       [] val.tag = "Text" -> SerString(val.v)
       [] val.tag = "Float" -> F64Bytes(val.v)
       [] OTHER -> << >>)

RECURSIVE SerValues(_)
SerValues(row) ==
    IF row = << >> THEN << >> ELSE SerValue(Head(row)) \o SerValues(Tail(row))

\* bincode::serialize(&Row): the Vec<Value> is a u64 count and the values.
SerializeRow(row) == LeBytes(Len(row), 8) \o SerValues(row)

RECURSIVE SerColumns(_)
SerColumns(columns) ==
    IF columns = << >> THEN << >>
    ELSE SerString(Head(columns).name)
         \o LeBytes(VariantIndex(ColumnTypes, Head(columns).column_type), 4)
         \o SerColumns(Tail(columns))

\* bincode::serialize(&TableSchema): the name, then the Vec<Column>.
SerializeSchema(name, columns) ==
    SerString(name) \o LeBytes(Len(columns), 8) \o SerColumns(columns)

\* Valid UTF-8 within the model: ASCII bytes.
IsUtf8(bs) == \A i \in 1..Len(bs) : bs[i] < 128

\* Decoding one Value from bs starting after `at` bytes.
\* Result: [ok, val, at] with `at` the bytes consumed so far.
DeValue(bs, at) ==
    IF at + 4 > Len(bs) THEN [ok |-> FALSE, val |-> NullV, at |-> at]
    ELSE LET tagNo == FromLeBytes(SubSeq(bs, at + 1, at + 4))
             p == at + 4
         IN CASE tagNo = 0 ->
                   IF p + 8 > Len(bs) THEN [ok |-> FALSE, val |-> NullV, at |-> p]
                   ELSE [ok |-> TRUE,
                         val |-> IntegerV(FromLeSigned(SubSeq(bs, p + 1, p + 8))),
                         at |-> p + 8]
              [] tagNo = 1 ->
                   IF p + 8 > Len(bs) THEN [ok |-> FALSE, val |-> NullV, at |-> p]
                   ELSE LET n == FromLeBytes(SubSeq(bs, p + 1, p + 8))
                        IN IF p + 8 + n > Len(bs)
                              \/ ~IsUtf8(SubSeq(bs, p + 9, p + 8 + n))
                           THEN [ok |-> FALSE, val |-> NullV, at |-> p + 8]
                           ELSE [ok |-> TRUE,
                                 val |-> TextV(SubSeq(bs, p + 9, p + 8 + n)),
                                 at |-> p + 8 + n]
              [] tagNo = 2 ->
                   IF p + 8 > Len(bs) THEN [ok |-> FALSE, val |-> NullV, at |-> p]
                   ELSE [ok |-> TRUE,
                         val |-> FloatV(F64FromBytes(SubSeq(bs, p + 1, p + 8))),
                         at |-> p + 8]
              [] tagNo = 3 -> [ok |-> TRUE, val |-> NullV, at |-> p]
              [] OTHER -> [ok |-> FALSE, val |-> NullV, at |-> p]

RECURSIVE DeValues(_, _, _, _)
\* Decoding `n` more values; `acc` holds the ones decoded so far.
DeValues(bs, at, n, acc) ==
    IF n = 0 THEN [ok |-> TRUE, row |-> acc]
    ELSE LET one == DeValue(bs, at)
         IN IF ~one.ok THEN [ok |-> FALSE, row |-> << >>]
            ELSE DeValues(bs, one.at, n - 1, Append(acc, one.val))

\* bincode::deserialize::<Row>: trailing bytes are allowed.
DeserializeRow(bs) ==
    IF Len(bs) < 8 THEN [ok |-> FALSE, row |-> << >>]
    ELSE LET n == FromLeBytes(SubSeq(bs, 1, 8))
         IN IF n > Len(bs) THEN [ok |-> FALSE, row |-> << >>]
            ELSE DeValues(bs, 8, n, << >>)

(***************************************************************************)
(* The data file and the handle's cursor (std::fs::File, BufReader,        *)
(* BufWriter).  The file is opened read+write without append, so every     *)
(* read and write happens at the handle's cursor and moves it.             *)
(***************************************************************************)
SCHEMA_MARKER == 255
ROW_MARKER == 170

RECURSIVE Zeros(_)
Zeros(n) == IF n <= 0 THEN << >> ELSE << 0 >> \o Zeros(n - 1)

\* write_all + flush of `bytes` through a BufWriter on the handle: the bytes
\* land at the cursor `at`, replacing what is there and extending the file
\* when they run past its end (a gap before `at` reads as zeros).
WriteAt(f, at, bytes) ==
    LET before == IF at <= Len(f) THEN SubSeq(f, 1, at)
                  ELSE f \o Zeros(at - Len(f))
        after == IF at + Len(bytes) < Len(f)
                 THEN SubSeq(f, at + Len(bytes) + 1, Len(f))
                 ELSE << >>
    IN before \o bytes \o after

\* BufReader::new on the handle whose cursor is `at`: `fd` is the handle's
\* cursor, `buf` the number of bytes read ahead and not yet consumed.
NewReader(at) == [fd |-> at, buf |-> 0]

RECURSIVE ReadLoop(_, _, _, _, _)
\* default_read_exact over BufReader::read: a request at least as large as
\* the capacity bypasses an empty buffer; otherwise an empty buffer is
\* refilled with up to BufCap bytes and the request is served from it.
ReadLoop(f, fd, buf, n, start) ==
    IF n = 0 THEN [ok |-> TRUE, fd |-> fd, buf |-> buf, at |-> start]
    ELSE IF buf = 0 /\ n >= BufCap
         THEN LET k == Min(n, Len(f) - fd)
              IN IF k <= 0
                 THEN [ok |-> FALSE, fd |-> fd, buf |-> 0, at |-> start]
                 ELSE ReadLoop(f, fd + k, 0, n - k, start)
    ELSE IF buf = 0
         THEN LET k == Min(BufCap, Len(f) - fd)
              IN IF k <= 0
                 THEN [ok |-> FALSE, fd |-> fd, buf |-> 0, at |-> start]
                 ELSE ReadLoop(f, fd + k, k, n, start)
    ELSE LET m == Min(n, buf)
         IN ReadLoop(f, fd, buf - m, n - m, start)

\* BufReader::read_exact of n bytes.  On success the bytes are
\* f[at+1 .. at+n]; a failure is UnexpectedEof.
ReadExact(f, r, n) ==
    IF r.buf >= n
    THEN [ok |-> TRUE, fd |-> r.fd, buf |-> r.buf - n, at |-> r.fd - r.buf]
    ELSE ReadLoop(f, r.fd, r.buf, n, r.fd - r.buf)

Bytes(f, rd, n) == SubSeq(f, rd.at + 1, rd.at + n)

\* The part of a row record after its marker: table name length and name,
\* payload length and payload.  Result: [ok, name, payload, r, size] with
\* `size` the record's encoded size.
ReadRowBody(f, r) ==
    LET bad(x) == [ok |-> FALSE, name |-> << >>, payload |-> << >>,
                   r |-> [fd |-> x.fd, buf |-> x.buf], size |-> 0]
        GotRow(table_name_len, r2, row_len, r4) ==
            IF ~r4.ok THEN bad(r4)
            ELSE [ok |-> TRUE,
                  name |-> Bytes(f, r2, table_name_len),
                  payload |-> Bytes(f, r4, row_len),
                  r |-> [fd |-> r4.fd, buf |-> r4.buf],
                  size |-> 1 + 2 + table_name_len + 4 + row_len]
        GotRowLen(table_name_len, r2, r3, row_len) ==
            GotRow(table_name_len, r2, row_len, ReadExact(f, r3, row_len))
        GotRowLenBytes(table_name_len, r2, r3) ==
            IF ~r3.ok THEN bad(r3)
            ELSE GotRowLen(table_name_len, r2, r3, FromLeBytes(Bytes(f, r3, 4)))
        GotName(table_name_len, r2) ==
            IF ~r2.ok THEN bad(r2)
            ELSE GotRowLenBytes(table_name_len, r2, ReadExact(f, r2, 4))
        GotNameLen(r1, table_name_len) ==
            GotName(table_name_len, ReadExact(f, r1, table_name_len))
        GotNameLenBytes(r1) ==
            IF ~r1.ok THEN bad(r1)
            ELSE GotNameLen(r1, FromLeBytes(Bytes(f, r1, 2)))
    IN GotNameLenBytes(ReadExact(f, r, 2))

\* The part of a schema record after its marker, which is skipped.
ReadSchemaBody(f, r) ==
    LET Skipped(len, r2) ==
            [ok |-> r2.ok, r |-> [fd |-> r2.fd, buf |-> r2.buf],
             size |-> 1 + 4 + len]
        GotLen(r1, len) == Skipped(len, ReadExact(f, r1, len))
        GotLenBytes(r1) ==
            IF ~r1.ok
            THEN [ok |-> FALSE, r |-> [fd |-> r1.fd, buf |-> r1.buf], size |-> 0]
            ELSE GotLen(r1, FromLeBytes(Bytes(f, r1, 4)))
    IN GotLenBytes(ReadExact(f, r, 4))

RECURSIVE ScanLoopPartial(_, _, _, _)
\* The loop of scan ending at any failed read with the rows read so far.
ScanLoopPartial(f, r, table_name, rows) ==
    LET Decoded(b, d) ==
            IF ~d.ok THEN [ok |-> FALSE, rows |-> << >>, fd |-> b.r.fd]
            ELSE ScanLoopPartial(f, b.r, table_name, Append(rows, d.row))
        RowArm(b) ==
            IF ~b.ok THEN [ok |-> TRUE, rows |-> rows, fd |-> b.r.fd]
            ELSE IF b.name = table_name
            THEN Decoded(b, DeserializeRow(b.payload))
            ELSE ScanLoopPartial(f, b.r, table_name, rows)
        SchemaArm(s) ==
            IF ~s.ok THEN [ok |-> TRUE, rows |-> rows, fd |-> s.r.fd]
            ELSE ScanLoopPartial(f, s.r, table_name, rows)
        GotMarker(m, marker) ==
            IF marker = SCHEMA_MARKER THEN SchemaArm(ReadSchemaBody(f, m))
            ELSE IF marker = ROW_MARKER THEN RowArm(ReadRowBody(f, m))
            ELSE [ok |-> FALSE, rows |-> << >>, fd |-> m.fd]
        GotMarkerByte(m) ==
            IF ~m.ok THEN [ok |-> TRUE, rows |-> rows, fd |-> m.fd]
            ELSE GotMarker(m, f[m.at + 1])
    IN GotMarkerByte(ReadExact(f, r, 1))

RECURSIVE ScanLoop(_, _, _, _)
\* The loop of BitcaskStorage::scan.  Result: [ok, rows, fd].
ScanLoop(f, r, table_name, rows) ==
    LET Decoded(b, d) ==
            IF ~d.ok THEN [ok |-> FALSE, rows |-> << >>, fd |-> b.r.fd]
            ELSE ScanLoop(f, b.r, table_name, Append(rows, d.row))
        RowArm(b) ==
            IF ~b.ok THEN [ok |-> FALSE, rows |-> << >>, fd |-> b.r.fd]
            ELSE IF b.name = table_name
            THEN Decoded(b, DeserializeRow(b.payload))
            ELSE ScanLoop(f, b.r, table_name, rows)
        SchemaArm(s) ==
            IF ~s.ok THEN [ok |-> FALSE, rows |-> << >>, fd |-> s.r.fd]
            ELSE ScanLoop(f, s.r, table_name, rows)
        GotMarker(m, marker) ==
            IF marker = SCHEMA_MARKER THEN SchemaArm(ReadSchemaBody(f, m))
            ELSE IF marker = ROW_MARKER THEN RowArm(ReadRowBody(f, m))
            ELSE [ok |-> FALSE, rows |-> << >>, fd |-> m.fd]
        GotMarkerByte(m) ==
            IF ~m.ok THEN [ok |-> TRUE, rows |-> rows, fd |-> m.fd]
            ELSE GotMarker(m, f[m.at + 1])
    IN GotMarkerByte(ReadExact(f, r, 1))

\* BitcaskStorage::scan: rewind, then decode every record.
ScanFile(f, table_name) == ScanLoop(f, NewReader(0), table_name, << >>)

\* Index::insert putting the offset at the front of the list.
IndexInsertFront(index_map, value, offset) ==
    LET key == ValueToString(value)
    IN IF key \in DOMAIN index_map
       THEN [index_map EXCEPT ![key] = << offset >> \o @]
       ELSE [k \in DOMAIN index_map \cup {key} |->
                IF k = key THEN << offset >> ELSE index_map[k]]

\* Index::insert: push the offset on the list under the value's key.
IndexInsert(index_map, value, offset) ==
    LET key == ValueToString(value)
    IN IF key \in DOMAIN index_map
       THEN [index_map EXCEPT ![key] = Append(@, offset)]
       ELSE [k \in DOMAIN index_map \cup {key} |->
                IF k = key THEN << offset >> ELSE index_map[k]]

\* Index::lookup: the list under the value's key, if any.
IndexHas(index_map, value) == ValueToString(value) \in DOMAIN index_map
IndexLookupOffsets(index_map, value) == index_map[ValueToString(value)]

EmptyMap == [k \in {} |-> << >>]

RECURSIVE IndexLoop(_, _, _, _, _, _)
\* The replay loop of BitcaskStorage::create_index.
\* Result: [ok, index_map, fd].
IndexLoop(f, r, table_name, column_index, current, index_map) ==
    LET Decoded(b, d, row_start_offset) ==
            IF ~d.ok THEN [ok |-> FALSE, index_map |-> EmptyMap, fd |-> b.r.fd]
            ELSE IndexLoop(f, b.r, table_name, column_index, current + b.size,
                           IF RowHas(d.row, column_index)
                           THEN IndexInsert(index_map,
                                            RowGet(d.row, column_index),
                                            row_start_offset)
                           ELSE index_map)
        RowArm(b, row_start_offset) ==
            IF ~b.ok THEN [ok |-> FALSE, index_map |-> EmptyMap, fd |-> b.r.fd]
            ELSE IF b.name = table_name
            THEN Decoded(b, DeserializeRow(b.payload), row_start_offset)
            ELSE IndexLoop(f, b.r, table_name, column_index,
                           current + b.size, index_map)
        SchemaArm(s) ==
            IF ~s.ok THEN [ok |-> FALSE, index_map |-> EmptyMap, fd |-> s.r.fd]
            ELSE IndexLoop(f, s.r, table_name, column_index,
                           current + s.size, index_map)
        GotMarker(m, marker) ==
            IF marker = SCHEMA_MARKER THEN SchemaArm(ReadSchemaBody(f, m))
            ELSE IF marker = ROW_MARKER THEN RowArm(ReadRowBody(f, m), current)
            ELSE [ok |-> FALSE, index_map |-> EmptyMap, fd |-> m.fd]
        GotMarkerByte(m) ==
            IF ~m.ok THEN [ok |-> TRUE, index_map |-> index_map, fd |-> m.fd]
            ELSE GotMarker(m, f[m.at + 1])
    IN GotMarkerByte(ReadExact(f, r, 1))

\* The replay of create_index from offset 0.
BuildIndex(f, table_name, column_index) ==
    IndexLoop(f, NewReader(0), table_name, column_index, 0, EmptyMap)

\* BitcaskStorage::read_row_at_offset.  Result: [ok, row, fd].
ReadRowAtOffset(f, offset) ==
    LET Decoded(b, d) == [ok |-> d.ok, row |-> d.row, fd |-> b.r.fd]
        GotBody(b) ==
            IF ~b.ok THEN [ok |-> FALSE, row |-> << >>, fd |-> b.r.fd]
            ELSE Decoded(b, DeserializeRow(b.payload))
        GotMarkerByte(m) ==
            IF ~m.ok THEN [ok |-> FALSE, row |-> << >>, fd |-> m.fd]
            ELSE IF f[m.at + 1] # ROW_MARKER
            THEN [ok |-> FALSE, row |-> << >>, fd |-> m.fd]
            ELSE GotBody(ReadRowBody(f, m))
    IN GotMarkerByte(ReadExact(f, NewReader(offset), 1))

RECURSIVE ReadRows(_, _, _, _)
\* The loop of index_lookup over the offsets of a hit; `at` is the cursor
\* the handle is left at when the list is empty.  Result: [ok, rows, fd].
ReadRows(f, offsets, rows, at) ==
    LET GotRow(one) ==
            IF ~one.ok THEN [ok |-> FALSE, rows |-> << >>, fd |-> one.fd]
            ELSE ReadRows(f, Tail(offsets), Append(rows, one.row), one.fd)
    IN IF offsets = << >> THEN [ok |-> TRUE, rows |-> rows, fd |-> at]
       ELSE GotRow(ReadRowAtOffset(f, Head(offsets)))

\* The schema record and the row record as written.
SchemaRecord(name, columns) ==
    LET schema_bytes == SerializeSchema(name, columns)
    IN << SCHEMA_MARKER >> \o LeBytes(Len(schema_bytes), 4) \o schema_bytes

RowRecord(table_name, row) ==
    LET row_bytes == SerializeRow(row)
    IN << ROW_MARKER >> \o LeBytes(Len(table_name), 2) \o table_name
       \o LeBytes(Len(row_bytes), 4) \o row_bytes

(***************************************************************************)
(* Inputs of the model.                                                    *)
(***************************************************************************)
\* "t", "u": the names tables are created under; "m" is never created.
NameT == << 116 >>
NameU == << 117 >>
NameMissing == << 109 >>
TableNames == {NameT, NameU}
QueryNames == TableNames \cup {NameMissing}

\* "a", "b": column names; "z" is in no schema.
ColA == << 97 >>
ColB == << 98 >>
ColNoSuch == << 122 >>
ColumnNames == {ColA, ColB, ColNoSuch}

Column(name, type) == [name |-> name, column_type |-> type]

\* The column lists tables are created with.
SchemaChoices ==
    { << Column(ColA, "Integer"), Column(ColB, "Text") >>,
      << Column(ColA, "Float") >> }

\* The rows offered to insert: rows that fit one of the column lists, and
\* rows of the wrong arity or with a value of the wrong variant for both.
InputRows ==
    { << IntegerV(1), TextV(<< 49 >>) >>, << NullV, NullV >>,
      << FloatV(2) >>, << NullV >>,
      << IntegerV(1) >>, << TextV(<< 49 >>), IntegerV(1) >> }

(***************************************************************************)
(* State of one BitcaskStorage over its data file.                         *)
(***************************************************************************)
VARIABLES
    file,            \* the bytes of the data file
    pos,             \* the cursor of the shared file handle (data_file)
    current_offset,  \* BitcaskStorage.current_offset
    tables,          \* BitcaskStorage.tables: name -> [columns, row_count]
    indexes,         \* BitcaskStorage.indexes: name -> column -> Index
    last,            \* the last call and what it returned
    inserted,        \* history: the successful inserts, in order
    appends,         \* history: number of records appended so far
    session_appends, \* history: the same, since the engine was opened
    reopens          \* history: number of times the engine was reopened

vars == << file, pos, current_offset, tables, indexes, last, inserted,
           appends, session_appends, reopens >>

NoTables == [n \in {} |-> [columns |-> << >>, row_count |-> 0]]
NoIndexes == [n \in {} |-> [c \in {} |-> 0]]

\* What a call reports; the fields a call does not use keep these values.
NoCall ==
    [op |-> "new", table |-> << >>, col |-> << >>, row |-> << >>,
     val |-> NullV, ok |-> TRUE, err |-> "", off |-> 0, rows |-> << >>,
     stmt |-> "", where |-> << >>, result |-> "", count |-> 0,
     used_index |-> FALSE, index_hit |-> FALSE, values |-> << >>]

\* BitcaskStorage::new on a file that does not exist yet.
Init ==
    /\ file = << >>
    /\ pos = 0
    /\ current_offset = 0
    /\ tables = NoTables
    /\ indexes = NoIndexes
    /\ last = NoCall
    /\ inserted = << >>
    /\ appends = 0
    /\ session_appends = 0
    /\ reopens = 0

\* BitcaskStorage::new on the file an earlier engine left behind: the
\* handle is opened at position 0 and current_offset is the file's length.
Reopen ==
    /\ reopens < MaxReopens
    /\ file # << >>
    /\ reopens' = reopens + 1
    /\ pos' = 0
    /\ current_offset' = Len(file)
    /\ tables' = NoTables
    /\ indexes' = NoIndexes
    /\ last' = [NoCall EXCEPT !.op = "reopen"]
    /\ session_appends' = 0
    /\ UNCHANGED << file, inserted, appends >>

(***************************************************************************)
(* Storage operations, as results over a storage value                     *)
(* st = [file, pos, current_offset, tables, indexes].                      *)
(***************************************************************************)
Storage == [file |-> file, pos |-> pos, current_offset |-> current_offset,
            tables |-> tables, indexes |-> indexes]

\* BitcaskStorage::write_schema
WriteSchema(st, name, columns) ==
    LET rec == SchemaRecord(name, columns)
    IN [st EXCEPT !.file = WriteAt(st.file, st.pos, rec),
                  !.pos = st.pos + Len(rec),
                  !.current_offset = st.current_offset + Len(rec)]

\* create_table without the check for a name already in the catalog.
StCreateTableNoCheck(st, name, columns) ==
    LET registered ==
            [st EXCEPT !.tables =
                [n \in DOMAIN st.tables \cup {name} |->
                    IF n = name THEN [columns |-> columns, row_count |-> 0]
                    ELSE st.tables[n]]]
    IN [ok |-> TRUE, err |-> "", st |-> WriteSchema(registered, name, columns)]

\* BitcaskStorage::create_table.  Result: [ok, err, st].
StCreateTable(st, name, columns) ==
    IF name \in DOMAIN st.tables
    THEN [ok |-> FALSE, err |-> "AlreadyExists", st |-> st]
    ELSE LET registered ==
                 [st EXCEPT !.tables =
                     [n \in DOMAIN st.tables \cup {name} |->
                         IF n = name THEN [columns |-> columns, row_count |-> 0]
                         ELSE st.tables[n]]]
         IN [ok |-> TRUE, err |-> "", st |-> WriteSchema(registered, name, columns)]

\* BitcaskStorage::write_row
WriteRow(st, table_name, row) ==
    LET rec == RowRecord(table_name, row)
    IN [st EXCEPT !.file = WriteAt(st.file, st.pos, rec),
                  !.pos = st.pos + Len(rec),
                  !.current_offset = st.current_offset + Len(rec)]

\* The index update of insert: every index of the table whose column the
\* schema knows receives the row's value at that column.
UpdateIndexes(table_indexes, columns, row, row_offset) ==
    [c \in DOMAIN table_indexes |->
        LET col_idx == GetColumnIndex(columns, c)
        IN IF col_idx >= 0 /\ RowHas(row, col_idx)
           THEN [table_indexes[c] EXCEPT !.index_map =
                    IndexInsert(@, RowGet(row, col_idx), row_offset)]
           ELSE table_indexes[c]]

\* BitcaskStorage::insert.  Result: [ok, err, off, st].
StInsert(st, table_name, row) ==
    IF table_name \notin DOMAIN st.tables
    THEN [ok |-> FALSE, err |-> "NotFound", off |-> 0, st |-> st]
    ELSE IF ~ValidateRow(st.tables[table_name].columns, row)
    THEN [ok |-> FALSE, err |-> "InvalidData", off |-> 0, st |-> st]
    ELSE LET row_offset == st.current_offset
             written == WriteRow(st, table_name, row)
             indexed ==
                 IF table_name \in DOMAIN written.indexes
                 THEN [written EXCEPT !.indexes[table_name] =
                          UpdateIndexes(@, st.tables[table_name].columns,
                                        row, row_offset)]
                 ELSE written
         IN [ok |-> TRUE, err |-> "", off |-> row_offset,
             st |-> [indexed EXCEPT !.tables[table_name].row_count = @ + 1]]

\* scan without the rewind to the start of the file.
StScanNoRewind(st, table_name) ==
    LET Done(res) ==
            [ok |-> res.ok, err |-> IF res.ok THEN "" ELSE "Corrupt",
             rows |-> res.rows, st |-> [st EXCEPT !.pos = res.fd]]
    IN Done(ScanLoop(st.file, NewReader(st.pos), table_name, << >>))

\* BitcaskStorage::scan.  Result: [ok, err, rows, st].
StScan(st, table_name) ==
    LET Done(res) ==
            [ok |-> res.ok, err |-> IF res.ok THEN "" ELSE "Corrupt",
             rows |-> res.rows, st |-> [st EXCEPT !.pos = res.fd]]
    IN Done(ScanFile(st.file, table_name))

\* create_index without the check that the schema has the column.
StCreateIndexNoColumnCheck(st, table_name, column_name) ==
    LET Entry(index, old) ==
            [c \in DOMAIN old \cup {column_name} |->
                IF c = column_name THEN index ELSE old[c]]
        Store(res, index) ==
            [ok |-> TRUE, err |-> "",
             st |-> [st EXCEPT
                        !.pos = res.fd,
                        !.indexes =
                            [n \in DOMAIN st.indexes \cup {table_name} |->
                                IF n = table_name
                                THEN Entry(index,
                                           IF table_name \in DOMAIN st.indexes
                                           THEN st.indexes[table_name]
                                           ELSE [c \in {} |-> index])
                                ELSE st.indexes[n]]]]
        Built(column_index, res) ==
            IF ~res.ok
            THEN [ok |-> FALSE, err |-> "Corrupt",
                  st |-> [st EXCEPT !.pos = res.fd]]
            ELSE Store(res, [table_name |-> table_name,
                             column_name |-> column_name,
                             column_index |-> column_index,
                             index_map |-> res.index_map])
        GotColumn(column_index) ==
            Built(column_index, BuildIndex(st.file, table_name, column_index))
    IN IF table_name \notin DOMAIN st.tables
       THEN [ok |-> FALSE, err |-> "NotFound", st |-> st]
       ELSE GotColumn(GetColumnIndex(st.tables[table_name].columns, column_name))

\* create_index storing the index as the only index of its table.
StCreateIndexAlone(st, table_name, column_name) ==
    LET Entry(index, old) ==
            [c \in {column_name} |-> index]
        Store(res, index) ==
            [ok |-> TRUE, err |-> "",
             st |-> [st EXCEPT
                        !.pos = res.fd,
                        !.indexes =
                            [n \in DOMAIN st.indexes \cup {table_name} |->
                                IF n = table_name
                                THEN Entry(index,
                                           IF table_name \in DOMAIN st.indexes
                                           THEN st.indexes[table_name]
                                           ELSE [c \in {} |-> index])
                                ELSE st.indexes[n]]]]
        Built(column_index, res) ==
            IF ~res.ok
            THEN [ok |-> FALSE, err |-> "Corrupt",
                  st |-> [st EXCEPT !.pos = res.fd]]
            ELSE Store(res, [table_name |-> table_name,
                             column_name |-> column_name,
                             column_index |-> column_index,
                             index_map |-> res.index_map])
        GotColumn(column_index) ==
            IF column_index < 0
            THEN [ok |-> FALSE, err |-> "NotFound", st |-> st]
            ELSE Built(column_index, BuildIndex(st.file, table_name, column_index))
    IN IF table_name \notin DOMAIN st.tables
       THEN [ok |-> FALSE, err |-> "NotFound", st |-> st]
       ELSE GotColumn(GetColumnIndex(st.tables[table_name].columns, column_name))

\* BitcaskStorage::create_index.  Result: [ok, err, st].
StCreateIndex(st, table_name, column_name) ==
    LET Entry(index, old) ==
            [c \in DOMAIN old \cup {column_name} |->
                IF c = column_name THEN index ELSE old[c]]
        Store(res, index) ==
            [ok |-> TRUE, err |-> "",
             st |-> [st EXCEPT
                        !.pos = res.fd,
                        !.indexes =
                            [n \in DOMAIN st.indexes \cup {table_name} |->
                                IF n = table_name
                                THEN Entry(index,
                                           IF table_name \in DOMAIN st.indexes
                                           THEN st.indexes[table_name]
                                           ELSE [c \in {} |-> index])
                                ELSE st.indexes[n]]]]
        Built(column_index, res) ==
            IF ~res.ok
            THEN [ok |-> FALSE, err |-> "Corrupt",
                  st |-> [st EXCEPT !.pos = res.fd]]
            ELSE Store(res, [table_name |-> table_name,
                             column_name |-> column_name,
                             column_index |-> column_index,
                             index_map |-> res.index_map])
        GotColumn(column_index) ==
            IF column_index < 0
            THEN [ok |-> FALSE, err |-> "NotFound", st |-> st]
            ELSE Built(column_index, BuildIndex(st.file, table_name, column_index))
    IN IF table_name \notin DOMAIN st.tables
       THEN [ok |-> FALSE, err |-> "NotFound", st |-> st]
       ELSE GotColumn(GetColumnIndex(st.tables[table_name].columns, column_name))

\* BitcaskStorage::index_lookup.  Result: [ok, err, rows, st].
StIndexLookup(st, table_name, column_name, value) ==
    LET Done(res) ==
            [ok |-> res.ok, err |-> IF res.ok THEN "" ELSE "Corrupt",
             rows |-> res.rows, st |-> [st EXCEPT !.pos = res.fd]]
    IN IF \/ table_name \notin DOMAIN st.indexes
          \/ column_name \notin DOMAIN st.indexes[table_name]
          \/ ~IndexHas(st.indexes[table_name][column_name].index_map, value)
       THEN [ok |-> FALSE, err |-> "NotFound", rows |-> << >>, st |-> st]
       ELSE Done(ReadRows(st.file,
                          IndexLookupOffsets(
                              st.indexes[table_name][column_name].index_map, value),
                          << >>, st.pos))

\* The storage after a call.
Becomes(st) ==
    /\ file' = st.file
    /\ pos' = st.pos
    /\ current_offset' = st.current_offset
    /\ tables' = st.tables
    /\ indexes' = st.indexes

(***************************************************************************)
(* The query executor (executor/mod.rs) over statement trees.              *)
(*                                                                         *)
(* An expression is [kind, y]: kind "Number" (y the digits), "String"      *)
(* (y the text), "Null", "Boolean" (a literal the executor does not        *)
(* support), "Identifier" (y the name), or a binary operator "Eq", "Gt",   *)
(* "Lt", "GtEq", "NotEq", "And", "Or" (y the pair of operands).            *)
(***************************************************************************)
Number(text) == [kind |-> "Number", y |-> text]
String(text) == [kind |-> "String", y |-> text]
NullLit == [kind |-> "Null", y |-> << >>]
BooleanLit == [kind |-> "Boolean", y |-> << >>]
Identifier(name) == [kind |-> "Identifier", y |-> name]
BinaryOp(left, op, right) == [kind |-> op, y |-> << left, right >>]
\* Expr::IsNull, an expression that is not a BinaryOp.
IsNull(expr) == [kind |-> "IsNull", y |-> << expr >>]

LiteralKinds == {"Number", "String", "Null", "Boolean"}
BinaryOps == {"Eq", "Gt", "Lt", "GtEq", "NotEq", "And", "Or"}

IsDigit(b) == b \in 48..57

RECURSIVE ParseDigits(_, _)
ParseDigits(text, acc) ==
    IF text = << >> THEN acc
    ELSE ParseDigits(Tail(text), 10 * acc + (Head(text) - 48))

\* str::parse::<i64> on the digits the tokenizer hands over.
\* Result: [ok, n].
ParseInteger(text) ==
    IF text # << >> /\ \A i \in 1..Len(text) : IsDigit(text[i])
    THEN [ok |-> TRUE, n |-> ParseDigits(text, 0)]
    ELSE [ok |-> FALSE, n |-> 0]

\* str::parse::<f64> on digits '.' digit, for the floats of the model
\* (halves).  Result: [ok, h].
ParseFloat(text) ==
    LET dots == {i \in 1..Len(text) : text[i] = 46}
    IN IF Cardinality(dots) # 1 THEN [ok |-> FALSE, h |-> 0]
       ELSE LET d == CHOOSE i \in dots : TRUE
                whole == SubSeq(text, 1, d - 1)
                frac == SubSeq(text, d + 1, Len(text))
            IN IF \/ \E i \in 1..Len(whole) : ~IsDigit(whole[i])
                  \/ \E i \in 1..Len(frac) : ~IsDigit(frac[i])
                  \/ (whole = << >> /\ frac = << >>)
               THEN [ok |-> FALSE, h |-> 0]
               ELSE IF frac = << >> \/ \A i \in 1..Len(frac) : frac[i] = 48
               THEN [ok |-> TRUE, h |-> 2 * ParseDigits(whole, 0)]
               ELSE IF frac[1] = 53 /\ \A i \in 2..Len(frac) : frac[i] = 48
               THEN [ok |-> TRUE, h |-> 2 * ParseDigits(whole, 0) + 1]
               ELSE [ok |-> TRUE, h |-> OtherFloat]

\* QueryExecutor::sql_value_to_value.  Result: [ok, val].
SqlValueToValue(lit) ==
    CASE lit.kind = "Number" ->
           IF \E i \in 1..Len(lit.y) : lit.y[i] = 46
           THEN LET f == ParseFloat(lit.y)
                IN [ok |-> f.ok, val |-> IF f.ok THEN FloatV(f.h) ELSE NullV]
           ELSE LET n == ParseInteger(lit.y)
                IN [ok |-> n.ok, val |-> IF n.ok THEN IntegerV(n.n) ELSE NullV]
      [] lit.kind = "String" -> [ok |-> TRUE, val |-> TextV(lit.y)]
      [] lit.kind = "Null" -> [ok |-> TRUE, val |-> NullV]
      [] OTHER -> [ok |-> FALSE, val |-> NullV]

\* QueryExecutor::expr_to_value: only a literal converts.
ExprToValue(expr) ==
    IF expr.kind \in LiteralKinds THEN SqlValueToValue(expr)
    ELSE [ok |-> FALSE, val |-> NullV]

\* eval_expr_to_value reading the first column for a column the schema
\* does not have.
EvalExprToValueFirstColumn(expr, row, columns) ==
    IF expr.kind = "Identifier"
    THEN LET col_idx == GetColumnIndex(columns, expr.y)
         IN IF col_idx >= 0 THEN RowGet(row, col_idx) ELSE RowGet(row, 0)
    ELSE IF expr.kind \in LiteralKinds
    THEN LET v == SqlValueToValue(expr) IN IF v.ok THEN v.val ELSE NullV
    ELSE NullV

\* QueryExecutor::eval_expr_to_value
EvalExprToValue(expr, row, columns) ==
    IF expr.kind = "Identifier"
    THEN LET col_idx == GetColumnIndex(columns, expr.y)
         IN IF col_idx >= 0 THEN RowGet(row, col_idx) ELSE NullV
    ELSE IF expr.kind \in LiteralKinds
    THEN LET v == SqlValueToValue(expr) IN IF v.ok THEN v.val ELSE NullV
    ELSE NullV

\* evaluate_expr with every operator other than =, > and < taken as true.
EvaluateExprOthersTrue(expr, row, columns) ==
    IF expr.kind \in BinaryOps
    THEN LET left_val == EvalExprToValue(expr.y[1], row, columns)
             right_val == EvalExprToValue(expr.y[2], row, columns)
         IN CASE expr.kind = "Eq" -> left_val = right_val
              [] expr.kind = "Gt" ->
                   /\ left_val.tag = right_val.tag
                   /\ left_val.tag \in {"Integer", "Float"}
                   /\ left_val.v > right_val.v
              [] expr.kind = "Lt" ->
                   /\ left_val.tag = right_val.tag
                   /\ left_val.tag \in {"Integer", "Float"}
                   /\ left_val.v < right_val.v
              [] OTHER -> TRUE
    ELSE TRUE

\* evaluate_expr with > and < comparing an Integer with a Float by value
\* (a Float holds a number of halves).
EvaluateExprCoercing(expr, row, columns) ==
    IF expr.kind \in BinaryOps
    THEN LET left_val == EvalExprToValue(expr.y[1], row, columns)
             right_val == EvalExprToValue(expr.y[2], row, columns)
             halves(val) == IF val.tag = "Integer" THEN 2 * val.v ELSE val.v
         IN CASE expr.kind = "Eq" -> left_val = right_val
              [] expr.kind = "Gt" ->
                   /\ left_val.tag \in {"Integer", "Float"}
                   /\ right_val.tag \in {"Integer", "Float"}
                   /\ halves(left_val) > halves(right_val)
              [] expr.kind = "Lt" ->
                   /\ left_val.tag \in {"Integer", "Float"}
                   /\ right_val.tag \in {"Integer", "Float"}
                   /\ halves(left_val) < halves(right_val)
              [] OTHER -> FALSE
    ELSE TRUE

\* QueryExecutor::evaluate_expr
EvaluateExpr(expr, row, columns) ==
    IF expr.kind \in BinaryOps
    THEN LET left_val == EvalExprToValue(expr.y[1], row, columns)
             right_val == EvalExprToValue(expr.y[2], row, columns)
         IN CASE expr.kind = "Eq" -> left_val = right_val
              [] expr.kind = "Gt" ->
                   /\ left_val.tag = right_val.tag
                   /\ left_val.tag \in {"Integer", "Float"}
                   /\ left_val.v > right_val.v
              [] expr.kind = "Lt" ->
                   /\ left_val.tag = right_val.tag
                   /\ left_val.tag \in {"Integer", "Float"}
                   /\ left_val.v < right_val.v
              [] OTHER -> FALSE
    ELSE TRUE

RECURSIVE FilterRows(_, _, _)
FilterRows(rows, expr, columns) ==
    IF rows = << >> THEN << >>
    ELSE (IF EvaluateExpr(expr, Head(rows), columns) THEN << Head(rows) >> ELSE << >>)
         \o FilterRows(Tail(rows), expr, columns)

\* The scan-and-filter part of execute_where.  Result: [ok, err, rows, st].
ScanAndFilter(st, table_name, expr) ==
    LET Scanned(all_rows) ==
            IF ~all_rows.ok
            THEN [ok |-> FALSE, err |-> all_rows.err, rows |-> << >>,
                  st |-> all_rows.st]
            ELSE IF table_name \notin DOMAIN st.tables
            THEN [ok |-> FALSE, err |-> "NotFound", rows |-> << >>,
                  st |-> all_rows.st]
            ELSE [ok |-> TRUE, err |-> "",
                  rows |-> FilterRows(all_rows.rows, expr,
                                      st.tables[table_name].columns),
                  st |-> all_rows.st]
    IN Scanned(StScan(st, table_name))

\* QueryExecutor::execute_where.  Result: [ok, err, rows, index_hit, st];
\* index_hit is the branch that reports "Using index".
ExecuteWhere(st, table_name, expr) ==
    LET FullScan(scanned) ==
            [ok |-> scanned.ok, err |-> scanned.err, rows |-> scanned.rows,
             index_hit |-> FALSE, st |-> scanned.st]
        Looked(hit) ==
            IF hit.ok
            THEN [ok |-> TRUE, err |-> "", rows |-> hit.rows,
                  index_hit |-> TRUE, st |-> hit.st]
            ELSE FullScan(ScanAndFilter(hit.st, table_name, expr))
        GotValue(value) ==
            IF ~value.ok
            THEN [ok |-> FALSE, err |-> "InvalidInput", rows |-> << >>,
                  index_hit |-> FALSE, st |-> st]
            ELSE Looked(StIndexLookup(st, table_name, expr.y[1].y, value.val))
    IN IF expr.kind = "Eq" /\ expr.y[1].kind = "Identifier"
       THEN GotValue(ExprToValue(expr.y[2]))
       ELSE FullScan(ScanAndFilter(st, table_name, expr))

\* QueryExecutor::execute_select; `where` is << >> without a WHERE clause,
\* << expr >> with one.
ExecuteSelect(st, table_name, where) ==
    LET Scanned(all_rows) ==
            [ok |-> all_rows.ok, err |-> all_rows.err, rows |-> all_rows.rows,
             index_hit |-> FALSE, st |-> all_rows.st]
    IN IF where # << >> THEN ExecuteWhere(st, table_name, where[1])
       ELSE Scanned(StScan(st, table_name))

\* The data types of CREATE TABLE the executor maps, and one it does not.
MapDataType(data_type) ==
    CASE data_type \in {"Int", "Integer", "BigInt", "SmallInt"} -> "Integer"
      [] data_type \in {"Text", "Varchar", "Char"} -> "Text"
      [] data_type \in {"Float", "Real", "Double"} -> "Float"
      [] OTHER -> "Unsupported"

\* execute_create_table taking a column of an unmapped data type as Text.
ExecuteCreateTableLenient(st, table_name, col_defs) ==
    StCreateTable(st, table_name,
                  [i \in 1..Len(col_defs) |->
                      Column(col_defs[i].name,
                             IF MapDataType(col_defs[i].data_type) = "Unsupported"
                             THEN "Text"
                             ELSE MapDataType(col_defs[i].data_type))])

\* QueryExecutor::execute_create_table; col_defs is a sequence of
\* [name, data_type].  Result: [ok, err, st].
ExecuteCreateTable(st, table_name, col_defs) ==
    IF \E i \in 1..Len(col_defs) : MapDataType(col_defs[i].data_type) = "Unsupported"
    THEN [ok |-> FALSE, err |-> "InvalidInput", st |-> st]
    ELSE StCreateTable(st, table_name,
                       [i \in 1..Len(col_defs) |->
                           Column(col_defs[i].name, MapDataType(col_defs[i].data_type))])

RECURSIVE RowValues(_, _)
\* The inner loop of execute_insert: each expression of one VALUES row.
\* Result: [ok, row].
RowValues(exprs, acc) ==
    IF exprs = << >> THEN [ok |-> TRUE, row |-> acc]
    ELSE LET value == ExprToValue(Head(exprs))
         IN IF ~value.ok THEN [ok |-> FALSE, row |-> << >>]
            ELSE RowValues(Tail(exprs), Append(acc, value.val))

RECURSIVE InsertRows(_, _, _, _, _)
\* The outer loop of execute_insert.  Result: [ok, err, count, offs, st]:
\* on an error the rows inserted before it stay inserted.
InsertRows(st, table_name, value_rows, inserted_count, offs) ==
    IF value_rows = << >>
    THEN [ok |-> TRUE, err |-> "", count |-> inserted_count, offs |-> offs, st |-> st]
    ELSE LET conv == RowValues(Head(value_rows), << >>)
         IN IF ~conv.ok
            THEN [ok |-> FALSE, err |-> "InvalidInput", count |-> inserted_count,
                  offs |-> offs, st |-> st]
            ELSE LET res == StInsert(st, table_name, conv.row)
                 IN IF ~res.ok
                    THEN [ok |-> FALSE, err |-> res.err, count |-> inserted_count,
                          offs |-> offs, st |-> res.st]
                    ELSE InsertRows(res.st, table_name, Tail(value_rows),
                                    inserted_count + 1,
                                    Append(offs, [table |-> table_name,
                                                  row |-> conv.row,
                                                  off |-> res.off]))

\* QueryExecutor::execute_insert
ExecuteInsert(st, table_name, value_rows) ==
    InsertRows(st, table_name, value_rows, 0, << >>)

(***************************************************************************)
(* Calls on the storage engine.                                            *)
(***************************************************************************)
\* History: a call appended n records.
Appended(n) ==
    /\ appends' = appends + n
    /\ session_appends' = session_appends + n

CreateTable(name, columns) ==
    \E res \in {StCreateTable(Storage, name, columns)} :
       /\ Becomes(res.st)
       /\ last' = [NoCall EXCEPT !.op = "create_table", !.table = name,
                                 !.ok = res.ok, !.err = res.err]
       /\ Appended(IF res.ok THEN 1 ELSE 0)
       /\ UNCHANGED << inserted, reopens >>

Insert(table_name, row) ==
    \E res \in {StInsert(Storage, table_name, row)} :
       /\ Becomes(res.st)
       /\ last' = [NoCall EXCEPT !.op = "insert", !.table = table_name,
                                 !.row = row, !.ok = res.ok, !.err = res.err,
                                 !.off = res.off]
       /\ Appended(IF res.ok THEN 1 ELSE 0)
       /\ inserted' = IF res.ok
                      THEN Append(inserted, [table |-> table_name, row |-> row,
                                             off |-> res.off])
                      ELSE inserted
       /\ UNCHANGED reopens

Scan(table_name) ==
    \E res \in {StScan(Storage, table_name)} :
       /\ Becomes(res.st)
       /\ last' = [NoCall EXCEPT !.op = "scan", !.table = table_name,
                                 !.ok = res.ok, !.err = res.err,
                                 !.rows = res.rows]
       /\ UNCHANGED << inserted, appends, session_appends, reopens >>

CreateIndex(table_name, column_name) ==
    \E res \in {StCreateIndex(Storage, table_name, column_name)} :
       /\ Becomes(res.st)
       /\ last' = [NoCall EXCEPT !.op = "create_index", !.table = table_name,
                                 !.col = column_name, !.ok = res.ok,
                                 !.err = res.err]
       /\ UNCHANGED << inserted, appends, session_appends, reopens >>

IndexLookup(table_name, column_name, value) ==
    \E res \in {StIndexLookup(Storage, table_name, column_name, value)} :
       /\ Becomes(res.st)
       /\ last' = [NoCall EXCEPT !.op = "index_lookup", !.table = table_name,
                                 !.col = column_name, !.val = value,
                                 !.ok = res.ok, !.err = res.err,
                                 !.rows = res.rows]
       /\ UNCHANGED << inserted, appends, session_appends, reopens >>

\* read_row_at_offset called with an offset of the caller's choice.
ReadRowAt(offset) ==
    \E res \in {ReadRowAtOffset(file, offset)} :
       /\ pos' = res.fd
       /\ last' = [NoCall EXCEPT !.op = "read_row_at_offset", !.off = offset,
                                 !.ok = res.ok,
                                 !.err = IF res.ok THEN "" ELSE "Corrupt",
                                 !.rows = IF res.ok THEN << res.row >> ELSE << >>]
       /\ UNCHANGED << file, current_offset, tables, indexes, inserted,
                       appends, session_appends, reopens >>

\* create_table when the write of the schema record fails: the catalog
\* entry is already made, `written` bytes of the record reached the file,
\* and current_offset is not advanced.
CreateTableWriteFails(name, columns, written) ==
    LET rec == SchemaRecord(name, columns)
        part == SubSeq(rec, 1, Min(written, Len(rec)))
    IN /\ name \notin DOMAIN tables
       /\ tables' = [n \in DOMAIN tables \cup {name} |->
                        IF n = name THEN [columns |-> columns, row_count |-> 0]
                        ELSE tables[n]]
       /\ file' = WriteAt(file, pos, part)
       /\ pos' = pos + Len(part)
       /\ last' = [NoCall EXCEPT !.op = "create_table", !.table = name,
                                 !.ok = FALSE, !.err = "Io"]
       /\ UNCHANGED << current_offset, indexes, inserted, appends, session_appends,
                       reopens >>

(***************************************************************************)
(* Statements given to QueryExecutor::execute.  Every Ok result carries    *)
(* used_index: false.                                                      *)
(***************************************************************************)
ExecCreateTable(table_name, col_defs) ==
    \E res \in {ExecuteCreateTable(Storage, table_name, col_defs)} :
       /\ Becomes(res.st)
       /\ last' = [NoCall EXCEPT !.op = "execute", !.stmt = "CreateTable",
                                 !.table = table_name, !.ok = res.ok,
                                 !.err = res.err,
                                 !.result = IF res.ok THEN "Created" ELSE "",
                                 !.values = col_defs,
                                 !.used_index = FALSE]
       /\ Appended(IF res.ok THEN 1 ELSE 0)
       /\ UNCHANGED << inserted, reopens >>

\* execute on a text that does not parse ("ParseError"), that holds no
\* statement ("Empty"), or whose first statement is neither CREATE TABLE,
\* INSERT nor a query ("Other", for example DROP TABLE): an InvalidInput
\* error before any call on the storage.
ExecRejected(kind) ==
    /\ last' = [NoCall EXCEPT !.op = "execute", !.stmt = kind, !.ok = FALSE,
                              !.err = "InvalidInput"]
    /\ UNCHANGED << file, pos, current_offset, tables, indexes, inserted,
                    appends, session_appends, reopens >>

ExecInsert(table_name, value_rows) ==
    \E res \in {ExecuteInsert(Storage, table_name, value_rows)} :
       /\ Becomes(res.st)
       /\ last' = [NoCall EXCEPT !.op = "execute", !.stmt = "Insert",
                                 !.table = table_name, !.ok = res.ok,
                                 !.err = res.err,
                                 !.result = IF res.ok THEN "Inserted" ELSE "",
                                 !.count = IF res.ok THEN res.count ELSE 0,
                                 !.values = value_rows,
                                 !.used_index = FALSE]
       /\ Appended(Len(res.offs))
       /\ inserted' = inserted \o res.offs
       /\ UNCHANGED reopens

ExecSelect(table_name, where) ==
    \E res \in {ExecuteSelect(Storage, table_name, where)} :
       /\ Becomes(res.st)
       /\ last' = [NoCall EXCEPT !.op = "execute", !.stmt = "Query",
                                 !.table = table_name, !.where = where,
                                 !.ok = res.ok, !.err = res.err,
                                 !.result = IF res.ok THEN "Selected" ELSE "",
                                 !.rows = res.rows,
                                 !.index_hit = res.index_hit,
                                 !.used_index = FALSE]
       /\ UNCHANGED << inserted, appends, session_appends, reopens >>

(***************************************************************************)
(* Inputs of the calls.                                                    *)
(***************************************************************************)
\* create_table: t with either column list, u with the second.
CreateInputs ==
    {<< NameT, cols >> : cols \in SchemaChoices}
    \cup {<< NameU, << Column(ColA, "Float") >> >>}

\* Inserts into both tables, and one into a table that is never created.
InsertInputs ==
    {<< NameT, row >> : row \in InputRows}
    \cup {<< NameU, row >> : row \in {<< FloatV(2) >>, << IntegerV(1) >>}}
    \cup {<< NameMissing, << NullV >> >>}

\* Index targets: the columns of the column lists, a column no list has
\* and a table that is never created.
IndexInputs ==
    { << NameT, ColA >>, << NameT, ColB >>, << NameU, ColA >>,
      << NameT, ColNoSuch >>, << NameMissing, ColA >> }

LookupInputs ==
    {<< NameT, ColA, v >> : v \in {IntegerV(1), TextV(<< 49 >>), NullV}}
    \cup {<< NameT, ColB, v >> : v \in {IntegerV(1), NullV}}
    \cup {<< NameU, ColA, IntegerV(1) >>}

\* CREATE TABLE t (a INT, b TEXT), CREATE TABLE u (a FLOAT).
ColDef(name, data_type) == [name |-> name, data_type |-> data_type]
CreateStatements ==
    { << NameT, << ColDef(ColA, "Int"), ColDef(ColB, "Text") >> >>,
      << NameU, << ColDef(ColA, "Float") >> >> }

\* INSERT INTO t VALUES (1, '1') | (2, '1') | (NULL, NULL);
\* INSERT INTO u VALUES (1.0) | (NULL).
One == << 49 >>
InsertStatements ==
    { << NameT, << << Number(One), String(One) >> >> >>,
      << NameT, << << Number(<< 50 >>), String(One) >> >> >>,
      << NameT, << << NullLit, NullLit >> >> >>,
      << NameU, << << Number(<< 49, 46, 48 >>) >> >> >>,
      << NameU, << << NullLit >> >> >> }

\* SELECT * FROM n, and SELECT * FROM n WHERE c = 1 | '1' | 1.0 | NULL.
EqualityLiterals == {Number(One), String(One), Number(<< 49, 46, 48 >>), NullLit}
SelectStatements ==
    {<< n, << >> >> : n \in QueryNames}
    \cup {<< n, << BinaryOp(Identifier(c), "Eq", lit) >> >> :
             n \in TableNames, c \in {ColA, ColB}, lit \in EqualityLiterals}

\* WHERE clauses beyond column = literal.  On t (a INT, b TEXT) and
\* u (a FLOAT): a > 1, a < 2, a > 1.5, a < 1.5, a > '1', a > NULL,
\* a = NULL, a = 1.5, z = NULL; a = b, 1 = a; a >= 1, a <> 1,
\* a = 1 AND b = '1', a = 1 OR a = 2; a IS NULL.
OneAndHalf == << 49, 46, 53 >>
ComparisonLiterals ==
    {Number(One), Number(<< 50 >>), Number(OneAndHalf), String(One), NullLit}
ComparisonClauses ==
    {BinaryOp(Identifier(ColA), op, lit) :
        op \in {"Gt", "Lt"}, lit \in ComparisonLiterals}
    \cup {BinaryOp(Identifier(c), "Eq", lit) :
             c \in {ColA, ColNoSuch}, lit \in {NullLit, Number(OneAndHalf)}}
OperandClauses ==
    { BinaryOp(Identifier(ColA), "Eq", Identifier(ColB)),
      BinaryOp(Number(One), "Eq", Identifier(ColA)) }
OtherClauses ==
    { BinaryOp(Identifier(ColA), "GtEq", Number(One)),
      BinaryOp(Identifier(ColA), "NotEq", Number(One)),
      BinaryOp(BinaryOp(Identifier(ColA), "Eq", Number(One)), "And",
               BinaryOp(Identifier(ColB), "Eq", String(One))),
      BinaryOp(BinaryOp(Identifier(ColA), "Eq", Number(One)), "Or",
               BinaryOp(Identifier(ColA), "Eq", Number(<< 50 >>))),
      IsNull(Identifier(ColA)) }
\* Comparisons of a column no table has.
AbsentColumnClauses ==
    {BinaryOp(Identifier(ColNoSuch), op, lit) :
        op \in {"Eq", "Gt", "Lt"}, lit \in {Number(One), NullLit, BooleanLit}}
WhereStatements ==
    {<< n, << e >> >> :
        n \in TableNames,
        e \in ComparisonClauses \cup OperandClauses \cup OtherClauses
               \cup AbsentColumnClauses}

\* INSERT INTO t VALUES with one, two and three rows that validate, and
\* with a second row that does not: ('1', 1) has the wrong types, (b, '1')
\* is not a literal, (1) has the wrong arity.
RowOne == << Number(One), String(One) >>
RowTwo == << Number(<< 50 >>), String(One) >>
MultiRowStatements ==
    { << NameT, << RowOne >> >>,
      << NameT, << RowOne, RowTwo >> >>,
      << NameT, << RowTwo, << NullLit, NullLit >>, RowOne >> >>,
      << NameT, << RowOne, << String(One), Number(One) >>, RowTwo >> >>,
      << NameT, << RowTwo, << Identifier(ColB), String(One) >> >> >>,
      << NameT, << RowOne, << Number(One) >> >> >> }

\* SELECT * FROM t, and SELECT * FROM t WHERE a = 1 | 2.
InsertSpecSelects ==
    { << NameT, << >> >>,
      << NameT, << BinaryOp(Identifier(ColA), "Eq", Number(One)) >> >>,
      << NameT, << BinaryOp(Identifier(ColA), "Eq", Number(<< 50 >>)) >> >> }

\* Statements execute rejects before it reaches the storage, and
\* CREATE TABLE t (a INT, b BOOLEAN), CREATE TABLE u (a DATE).
RejectedKinds == {"ParseError", "Empty", "Other"}
UnsupportedCreateStatements ==
    { << NameT, << ColDef(ColA, "Int"), ColDef(ColB, "Boolean") >> >>,
      << NameU, << ColDef(ColA, "Date") >> >> }

(***************************************************************************)
(* Specifications.                                                         *)
(***************************************************************************)
\* One engine on a new file, driven through the storage interface.
Next ==
    \/ /\ appends < MaxAppends
       /\ \E c \in CreateInputs : CreateTable(c[1], c[2])
    \/ /\ appends < MaxAppends
       /\ \E i \in InsertInputs : Insert(i[1], i[2])
    \/ \E n \in QueryNames : Scan(n)
    \/ \E i \in IndexInputs : CreateIndex(i[1], i[2])
    \/ \E i \in LookupInputs : IndexLookup(i[1], i[2], i[3])

Spec == Init /\ [][Next]_vars

\* Only create_table, insert and scan.
NextLog ==
    \/ /\ appends < MaxLogAppends
       /\ \E c \in CreateInputs : CreateTable(c[1], c[2])
    \/ /\ appends < MaxLogAppends
       /\ \E i \in InsertInputs : Insert(i[1], i[2])
    \/ \E n \in QueryNames : Scan(n)

SpecLog == Init /\ [][NextLog]_vars

\* The engine may be dropped and opened again on the file it left.
NextReopen ==
    \/ /\ appends < MaxAppends
       /\ \E cols \in SchemaChoices : CreateTable(NameT, cols)
    \/ /\ appends < MaxAppends
       /\ \E row \in InputRows : Insert(NameT, row)
    \/ Scan(NameT)
    \/ CreateIndex(NameT, ColA)
    \/ \E v \in {IntegerV(1), NullV} : IndexLookup(NameT, ColA, v)
    \/ Reopen

SpecReopen == Init /\ [][NextReopen]_vars

\* The write of a schema record may fail, before any byte or after the
\* marker byte reached the file.
NextIO ==
    \/ /\ appends < MaxAppends
       /\ \E c \in CreateInputs : CreateTable(c[1], c[2])
    \/ /\ appends < MaxAppends
       /\ \E row \in InputRows : Insert(NameT, row)
    \/ Scan(NameT)
    \/ /\ appends < MaxAppends
       /\ \E c \in CreateInputs, k \in {0, 1} :
              CreateTableWriteFails(c[1], c[2], k)

SpecIO == Init /\ [][NextIO]_vars

\* One engine on a new file, driven through the executor; indexes are
\* created on the storage it owns.
NextExec ==
    \/ /\ appends < MaxExecAppends
       /\ \E c \in CreateStatements : ExecCreateTable(c[1], c[2])
    \/ /\ appends < MaxExecAppends
       /\ \E i \in InsertStatements : ExecInsert(i[1], i[2])
    \/ \E q \in SelectStatements : ExecSelect(q[1], q[2])
    \/ \E i \in IndexInputs : CreateIndex(i[1], i[2])

SpecExec == Init /\ [][NextExec]_vars

\* The executor on a new file, with the WHERE clauses that take the
\* scan-and-filter path.
NextWhere ==
    \/ /\ appends < MaxWhereAppends
       /\ \E c \in CreateStatements : ExecCreateTable(c[1], c[2])
    \/ /\ appends < MaxWhereAppends
       /\ \E i \in InsertStatements : ExecInsert(i[1], i[2])
    \/ \E q \in WhereStatements : ExecSelect(q[1], q[2])
    \/ CreateIndex(NameT, ColA)

SpecWhere == Init /\ [][NextWhere]_vars

\* The executor on a new file with INSERT statements of several rows,
\* indexes on both columns of t and SELECTs that an index may serve.
NextInsert ==
    \/ /\ appends < MaxInsertAppends
       /\ ExecCreateTable(NameT, << ColDef(ColA, "Int"), ColDef(ColB, "Text") >>)
    \/ /\ appends < MaxInsertAppends
       /\ \E i \in MultiRowStatements : ExecInsert(i[1], i[2])
    \/ \E q \in InsertSpecSelects : ExecSelect(q[1], q[2])
    \/ \E c \in {ColA, ColB} : CreateIndex(NameT, c)

SpecInsert == Init /\ [][NextInsert]_vars

\* The executor on a new file, given statements it rejects among
\* statements it executes.
NextStatements ==
    \/ /\ appends < MaxStatementAppends
       /\ \E c \in CreateStatements \cup UnsupportedCreateStatements :
              ExecCreateTable(c[1], c[2])
    \/ /\ appends < MaxStatementAppends
       /\ \E i \in InsertStatements : ExecInsert(i[1], i[2])
    \/ \E n \in TableNames : ExecSelect(n, << >>)
    \/ CreateIndex(NameT, ColA)
    \/ \E kind \in RejectedKinds : ExecRejected(kind)

SpecStatements == Init /\ [][NextStatements]_vars

(***************************************************************************)
(* The engine opened on a file that an earlier run left damaged.           *)
(***************************************************************************)
\* A log of table t(a FLOAT) with two rows, as an earlier engine wrote it.
WholeLog ==
    SchemaRecord(NameT, << Column(ColA, "Float") >>)
    \o RowRecord(NameT, << FloatV(2) >>)
    \o RowRecord(NameT, << NullV >>)

\* The offsets of the three records of WholeLog.
WholeLogBoundaries ==
    LET s == Len(SchemaRecord(NameT, << Column(ColA, "Float") >>))
    IN {0, s, s + Len(RowRecord(NameT, << FloatV(2) >>))}

\* The files the engine is opened on: the log cut after any number of bytes
\* (a write that did not complete), and the log with the marker byte of one
\* record replaced.
DamagedFiles ==
    {SubSeq(WholeLog, 1, k) : k \in 0..Len(WholeLog)}
    \cup {[WholeLog EXCEPT ![o + 1] = b] : o \in WholeLogBoundaries, b \in {0, 85}}

\* BitcaskStorage::new on such a file.
InitDamaged ==
    /\ file \in DamagedFiles
    /\ pos = 0
    /\ current_offset = Len(file)
    /\ tables = NoTables
    /\ indexes = NoIndexes
    /\ last = NoCall
    /\ inserted = << >>
    /\ appends = 0
    /\ session_appends = 0
    /\ reopens = 0

NextDamaged ==
    \/ /\ appends < MaxDamagedAppends
       /\ \E cols \in SchemaChoices : CreateTable(NameT, cols)
    \/ /\ appends < MaxDamagedAppends
       /\ \E row \in {<< FloatV(2) >>, << NullV >>} : Insert(NameT, row)
    \/ Scan(NameT)
    \/ CreateIndex(NameT, ColA)

SpecDamaged == InitDamaged /\ [][NextDamaged]_vars

(***************************************************************************)
(* Rows read at any offset of the file.                                    *)
(***************************************************************************)
\* t(a INT, b INT), and two rows: in the first one the bytes of the value
\* of a are 0xAA, two zero bytes, 8 as a four-byte length and a zero byte.
IntegerPair == << Column(ColA, "Integer"), Column(ColB, "Integer") >>

PointReadRows ==
    { << IntegerV(ROW_MARKER + 8 * 16777216), IntegerV(0) >>,
      << NullV, NullV >> }

NextPointRead ==
    \/ /\ appends < MaxPointAppends
       /\ CreateTable(NameT, IntegerPair)
    \/ /\ appends < MaxPointAppends
       /\ \E row \in PointReadRows : Insert(NameT, row)
    \/ Scan(NameT)
    \/ \E offset \in 0..Len(file) : ReadRowAt(offset)

SpecPointRead == Init /\ [][NextPointRead]_vars

(***************************************************************************)
(* Properties.                                                             *)
(***************************************************************************)
RECURSIVE RowsInsertedInto(_, _)
\* The rows of the successful inserts into table t, in insertion order.
RowsInsertedInto(history, t) ==
    IF history = << >> THEN << >>
    ELSE (IF Head(history).table = t THEN << Head(history).row >> ELSE << >>)
         \o RowsInsertedInto(Tail(history), t)

\* C1: after any sequence of create_table and insert calls, a scan of a
\* table succeeds and returns exactly the rows inserted into it, in insertion
\* order (the empty sequence for a name without rows): for the scan that
\* was just made, and for a scan of any name in the present state.
C1_ScanReturnsInsertedRows ==
    /\ last.op = "scan" =>
           last.ok /\ last.rows = RowsInsertedInto(inserted, last.table)
    /\ \A n \in QueryNames :
           \E res \in {StScan(Storage, n)} :
               res.ok /\ res.rows = RowsInsertedInto(inserted, n)

\* A scan of t returned two different rows of t that were inserted with a
\* row of u between them.
C1_Witness ==
    /\ last.op = "scan" /\ last.ok /\ last.table = NameT
    /\ Len(last.rows) = 2 /\ last.rows[1] # last.rows[2]
    /\ \E i, j, k \in 1..Len(inserted) :
           /\ i < j /\ j < k
           /\ inserted[i].table = NameT
           /\ inserted[j].table = NameU
           /\ inserted[k].table = NameT

\* Number of times offset o is stored in an index map.
Occurrences(index_map, o) ==
    Cardinality({ki \in UNION {{<< k, i >> : i \in 1..Len(index_map[k])} :
                                  k \in DOMAIN index_map} :
                    index_map[ki[1]][ki[2]] = o})

\* The bytes of the file from offset o, n of them at most.
BytesAt(f, o, n) == SubSeq(f, o + 1, Min(o + n, Len(f)))

\* C3 (as claimed): every index on (t, c) holds exactly the offsets of the
\* row records of t, each once and under the key of the row's value at c,
\* and the row's record is in the file at that offset.
C3_IndexMatchesLog ==
    \A t \in DOMAIN indexes : \A c \in DOMAIN indexes[t] :
        LET ix == indexes[t][c]
        IN /\ \A i \in 1..Len(inserted) :
                  inserted[i].table = t =>
                      LET rec == RowRecord(t, inserted[i].row)
                          key == ValueToString(RowGet(inserted[i].row, ix.column_index))
                      IN /\ Occurrences(ix.index_map, inserted[i].off) = 1
                         /\ key \in DOMAIN ix.index_map
                         /\ \E j \in 1..Len(ix.index_map[key]) :
                                ix.index_map[key][j] = inserted[i].off
                         /\ BytesAt(file, inserted[i].off, Len(rec)) = rec
           /\ \A k \in DOMAIN ix.index_map : \A j \in 1..Len(ix.index_map[k]) :
                  \E i \in 1..Len(inserted) :
                      /\ inserted[i].table = t
                      /\ inserted[i].off = ix.index_map[k][j]

\* C4 (as claimed): the offsets successive inserts return strictly increase,
\* and every offset stored in an index is the position of the marker of
\* exactly one row record of the file.
C4_OffsetsPointAtRowMarkers ==
    /\ \A i, j \in 1..Len(inserted) :
           i < j => inserted[i].off < inserted[j].off
    /\ \A t \in DOMAIN indexes : \A c \in DOMAIN indexes[t] :
           \A k \in DOMAIN indexes[t][c].index_map :
               \A j \in 1..Len(indexes[t][c].index_map[k]) :
                   LET o == indexes[t][c].index_map[k][j]
                   IN /\ o < Len(file)
                      /\ file[o + 1] = ROW_MARKER
                      /\ Cardinality({i \in 1..Len(inserted) :
                             /\ inserted[i].off = o
                             /\ BytesAt(file, o, Len(RowRecord(inserted[i].table,
                                                                inserted[i].row)))
                                = RowRecord(inserted[i].table, inserted[i].row)}) = 1

\* C5 (as claimed): every append happens at the end of the file: the tracked
\* offset is the file's length before and after it, nothing written before
\* is changed, and the marker of an inserted row is at the offset returned.
C5_AppendStep ==
    appends' = appends + 1 =>
        /\ current_offset = Len(file)
        /\ current_offset' = Len(file')
        /\ SubSeq(file', 1, Len(file)) = file
        /\ last'.op = "insert" =>
               /\ last'.off = Len(file)
               /\ file'[last'.off + 1] = ROW_MARKER

C5_AppendsAtEndOfFile == [][C5_AppendStep]_vars

\* C6 (as claimed): the first append of an engine opened on an existing
\* file begins at the file's length and keeps what the file held.
C6_FirstAppendStep ==
    (reopens > 0 /\ session_appends = 0 /\ session_appends' = 1) =>
        /\ Len(file') > Len(file)
        /\ SubSeq(file', 1, Len(file)) = file
        /\ last'.op = "insert" => last'.off = Len(file)

C6_ReopenedAppendKeepsFile == [][C6_FirstAppendStep]_vars

\* The row fits the columns neither in arity nor, position by position,
\* in variant (Null fits every type).
WrongArityOrType(columns, row) ==
    IF Len(row) # Len(columns) THEN TRUE
    ELSE \E i \in 1..Len(row) :
             row[i].tag # "Null" /\ row[i].tag # columns[i].column_type

\* C7: an insert into a table of the catalog with a row of the wrong arity
\* or with a non-Null value of the wrong variant fails and leaves the
\* file, the tracked offset, the catalog (row counts) and the indexes as they
\* were; every other row, Nulls at any position included, is accepted.
C7_InsertStep ==
    (last'.op = "insert" /\ last'.table \in DOMAIN tables) =>
        IF WrongArityOrType(tables[last'.table].columns, last'.row)
        THEN /\ ~last'.ok
             /\ UNCHANGED << file, current_offset, tables, indexes >>
        ELSE last'.ok

C7_InvalidRowRejected == [][C7_InsertStep]_vars

\* An insert of a row of the right arity and the wrong variant was refused
\* on a table that has rows and an index.
C7_Witness ==
    /\ last.op = "insert" /\ ~last.ok
    /\ last.table \in DOMAIN tables
    /\ Len(last.row) = Len(tables[last.table].columns)
    /\ tables[last.table].row_count > 0
    /\ last.table \in DOMAIN indexes

\* C8: create_table with a name of the catalog fails with AlreadyExists and
\* leaves the catalog, the file and the tracked offset as they were.
C8_DuplicateStep ==
    (last'.op = "create_table" /\ last'.table \in DOMAIN tables) =>
        /\ ~last'.ok
        /\ last'.err = "AlreadyExists"
        /\ UNCHANGED << tables, file, current_offset >>

C8_DuplicateCreateRejected == [][C8_DuplicateStep]_vars

\* create_table was refused for a table that has rows.
C8_Witness ==
    /\ last.op = "create_table" /\ ~last.ok /\ last.err = "AlreadyExists"
    /\ last.table \in DOMAIN tables
    /\ tables[last.table].row_count > 0

\* C9 (as claimed): a create_table that fails leaves the catalog and the
\* file as they were.
C9_FailedCreateStep ==
    (last'.op = "create_table" /\ ~last'.ok) =>
        UNCHANGED << tables, file >>

C9_FailedCreateChangesNothing == [][C9_FailedCreateStep]_vars

\* Number of times row r occurs in rows.
CountRow(rows, r) == Cardinality({i \in 1..Len(rows) : rows[i] = r})

SameBag(a, b) ==
    /\ Len(a) = Len(b)
    /\ \A i \in 1..Len(a) : CountRow(a, a[i]) = CountRow(b, a[i])

\* C2 (as claimed): the rows a SELECT ... WHERE c = v gets from an index hit
\* are, as a multiset, the rows scan-and-filter finds in the same file with
\* the indexes taken away.
C2_IndexPathEqualsScanPath ==
    (last.op = "execute" /\ last.stmt = "Query" /\ last.index_hit) =>
        \E byScan \in {ScanAndFilter([Storage EXCEPT !.indexes = NoIndexes],
                                      last.table, last.where[1])} :
            byScan.ok /\ SameBag(last.rows, byScan.rows)

\* C10 (as claimed): used_index is true exactly for the executions whose
\* rows came from an index hit.
C10_UsedIndexFlag ==
    (last.op = "execute" /\ last.ok) => (last.used_index = last.index_hit)

\* WHERE clause of the form column = literal, the only form execute_where
\* tries an index for.
IsColumnEqualsLiteral(e) ==
    /\ e.kind = "Eq"
    /\ e.y[1].kind = "Identifier"
    /\ e.y[2].kind \in LiteralKinds

\* A SELECT with a WHERE clause was just executed on a table of the catalog
\* whose log a scan reads without error.
SelectedWhere ==
    /\ last.op = "execute" /\ last.stmt = "Query" /\ last.where # << >>
    /\ last.table \in DOMAIN tables
    /\ StScan(Storage, last.table).ok

\* C11 (as claimed): a SELECT whose WHERE clause is not column = literal
\* never fails: it is answered by scan and filter with a Selected result.
C11_OtherShapesFallBack ==
    (SelectedWhere /\ ~IsColumnEqualsLiteral(last.where[1])) =>
        /\ last.ok
        /\ last.result = "Selected"
        /\ ~last.index_hit

Admits(op, val, lit) ==
    CASE op = "Eq" -> val = lit
      [] op = "Gt" ->
           \/ val.tag = "Integer" /\ lit.tag = "Integer" /\ val.v > lit.v
           \/ val.tag = "Float" /\ lit.tag = "Float" /\ val.v > lit.v
      [] op = "Lt" ->
           \/ val.tag = "Integer" /\ lit.tag = "Integer" /\ val.v < lit.v
           \/ val.tag = "Float" /\ lit.tag = "Float" /\ val.v < lit.v

RECURSIVE KeepRows(_, _, _, _)
KeepRows(rows, col_idx, op, lit) ==
    IF rows = << >> THEN << >>
    ELSE (IF Admits(op, Head(rows)[col_idx + 1], lit)
          THEN << Head(rows) >> ELSE << >>)
         \o KeepRows(Tail(rows), col_idx, op, lit)

\* C17: on the scan-and-filter path a clause c > lit, c < lit or c = lit on
\* a column c of the table succeeds and returns, in log order, exactly the
\* rows whose value at c the comparison admits.
C17_ComparisonSemantics ==
    (/\ SelectedWhere /\ ~last.index_hit
     /\ last.where[1].kind \in {"Eq", "Gt", "Lt"}
     /\ IsColumnEqualsLiteral([last.where[1] EXCEPT !.kind = "Eq"])
     /\ GetColumnIndex(tables[last.table].columns, last.where[1].y[1].y) >= 0
     /\ SqlValueToValue(last.where[1].y[2]).ok) =>
        \E all_rows \in {StScan(Storage, last.table)} :
            /\ last.ok
            /\ last.rows =
                   KeepRows(all_rows.rows,
                            GetColumnIndex(tables[last.table].columns,
                                           last.where[1].y[1].y),
                            last.where[1].kind,
                            SqlValueToValue(last.where[1].y[2]).val)

\* a > 1 on a table holding a = 1 and a = 2 returned the second row only.
C17_Witness ==
    /\ SelectedWhere /\ last.ok /\ ~last.index_hit
    /\ last.where[1] = BinaryOp(Identifier(ColA), "Gt", Number(One))
    /\ \E all_rows \in {StScan(Storage, last.table)} :
           /\ Len(all_rows.rows) = 2
           /\ all_rows.rows[1][1] = IntegerV(1)
           /\ all_rows.rows[2][1] = IntegerV(2)
           /\ last.rows = << all_rows.rows[2] >>

RECURSIVE LeadingValid(_, _)
\* The rows of an INSERT statement before the first one that is not made of
\* literals or does not fit the columns, as rows of values.
LeadingValid(columns, value_rows) ==
    IF value_rows = << >> THEN << >>
    ELSE IF \/ \E i \in 1..Len(Head(value_rows)) :
                  ~ExprToValue(Head(value_rows)[i]).ok
            \/ WrongArityOrType(columns,
                   [i \in 1..Len(Head(value_rows)) |->
                       ExprToValue(Head(value_rows)[i]).val])
    THEN << >>
    ELSE << [i \in 1..Len(Head(value_rows)) |->
                ExprToValue(Head(value_rows)[i]).val] >>
         \o LeadingValid(columns, Tail(value_rows))

RECURSIVE RowRecords(_, _)
\* The row records of the rows, one after the other.
RowRecords(t, rows) ==
    IF rows = << >> THEN << >>
    ELSE RowRecord(t, Head(rows)) \o RowRecords(t, Tail(rows))

RECURSIVE IndexedInOrder(_, _, _, _, _)
\* An index map after each row, in order, was filed at the offset its
\* record starts at, the first record starting at `at`.
IndexedInOrder(index_map, col_idx, t, rows, at) ==
    IF rows = << >> THEN index_map
    ELSE IndexedInOrder(IF RowHas(Head(rows), col_idx)
                        THEN IndexInsert(index_map, RowGet(Head(rows), col_idx), at)
                        ELSE index_map,
                        col_idx, t, Tail(rows),
                        at + Len(RowRecord(t, Head(rows))))

\* C13 (as claimed): an INSERT statement into a table of the catalog whose
\* n rows all validate returns Inserted(n), appends the n row records to the
\* file in statement order and adds n to row_count; rows are handled one
\* after the other (validate, append, index), so a statement stops at its
\* first bad row with the rows before it appended and in every index.
C13_InsertStatementStep ==
    (last'.op = "execute" /\ last'.stmt = "Insert"
        /\ last'.table \in DOMAIN tables) =>
        \E rows \in {LeadingValid(tables[last'.table].columns, last'.values)} :
            /\ last'.ok = (Len(rows) = Len(last'.values))
            /\ last'.ok => last'.count = Len(last'.values)
            /\ file' = file \o RowRecords(last'.table, rows)
            /\ tables'[last'.table].row_count =
                   tables[last'.table].row_count + Len(rows)
            /\ DOMAIN indexes' = DOMAIN indexes
            /\ last'.table \in DOMAIN indexes =>
                   \A c \in DOMAIN indexes[last'.table] :
                       indexes'[last'.table][c].index_map =
                           IndexedInOrder(indexes[last'.table][c].index_map,
                                          indexes[last'.table][c].column_index,
                                          last'.table, rows, Len(file))

C13_InsertStatementAppendsInOrder == [][C13_InsertStatementStep]_vars

\* The storage after the step.
StorageNext == [file |-> file', pos |-> pos', current_offset |-> current_offset',
                tables |-> tables', indexes |-> indexes']

\* The values lookups are compared on.
ProbeValues == {IntegerV(1), TextV(One), FloatV(2), NullV}

\* C14 (as claimed): a create_index on a (table, column) that already has
\* an index leaves the mapping one build on the present log gives: every
\* offset at which a row of the table was inserted is in it exactly once, no
\* offset is in it twice, and every lookup returns what it returned before
\* the rebuild.
C14_RebuildStep ==
    (/\ last'.op = "create_index" /\ last'.ok
     /\ last'.table \in DOMAIN indexes
     /\ last'.col \in DOMAIN indexes[last'.table]) =>
        \E ix \in {indexes'[last'.table][last'.col]} :
            /\ ix.index_map =
                   BuildIndex(file, last'.table, ix.column_index).index_map
            /\ \A k \in DOMAIN ix.index_map :
                   \A j \in 1..Len(ix.index_map[k]) :
                       Occurrences(ix.index_map, ix.index_map[k][j]) = 1
            /\ \A i \in 1..Len(inserted) :
                   inserted[i].table = last'.table =>
                       Occurrences(ix.index_map, inserted[i].off) = 1
            /\ \A v \in ProbeValues :
                   \E before \in {StIndexLookup(Storage, last'.table, last'.col, v)},
                      after \in {StIndexLookup(StorageNext, last'.table, last'.col, v)} :
                       /\ before.ok = after.ok
                       /\ before.rows = after.rows

C14_RebuildKeepsMapping == [][C14_RebuildStep]_vars

\* C15 (as claimed): reopening leaves the catalog and the index set empty;
\* in the reopened engine an insert into a table that was not created again
\* fails with NotFound, no lookup is served from an index that was not
\* created again, and a create_table succeeds, also for a name of the
\* earlier run, and appends a further schema record after the existing log.
C15_ReopenedStep ==
    /\ last'.op = "reopen" => tables' = NoTables /\ indexes' = NoIndexes
    /\ (reopens > 0 /\ last'.op = "insert" /\ last'.table \notin DOMAIN tables) =>
           /\ ~last'.ok /\ last'.err = "NotFound"
           /\ UNCHANGED << file, tables, indexes >>
    /\ (reopens > 0 /\ last'.op = "index_lookup"
            /\ (\/ last'.table \notin DOMAIN indexes
                \/ last'.col \notin DOMAIN indexes[last'.table])) =>
           ~last'.ok /\ last'.err = "NotFound"
    /\ (reopens > 0 /\ last'.op = "create_table"
            /\ last'.table \notin DOMAIN tables) =>
           /\ last'.ok
           /\ last'.table \in DOMAIN tables'
           /\ Len(file') > Len(file)
           /\ SubSeq(file', 1, Len(file)) = file
           /\ file'[Len(file) + 1] = SCHEMA_MARKER

C15_NoReplayOnReopen == [][C15_ReopenedStep]_vars

\* C16: a statement that does not parse, a statement other than CREATE
\* TABLE, INSERT and a query, and a CREATE TABLE with a column of an
\* unsupported type are rejected with an error and leave the catalog, the
\* file, the write offset and the indexes as they were.
C16_RejectedStep ==
    (/\ last'.op = "execute"
     /\ \/ last'.stmt \in RejectedKinds
        \/ /\ last'.stmt = "CreateTable"
           /\ \E i \in 1..Len(last'.values) :
                  last'.values[i].data_type
                      \notin {"Int", "Integer", "BigInt", "SmallInt", "Text",
                              "Varchar", "Char", "Float", "Real", "Double"}) =>
        /\ ~last'.ok
        /\ UNCHANGED << tables, file, current_offset, indexes >>

C16_RejectedStatementsChangeNothing == [][C16_RejectedStep]_vars

\* CREATE TABLE t (a INT, b BOOLEAN) was rejected by an engine that holds
\* table u and not t, and t is still not in the catalog.
C16_Witness ==
    /\ last.op = "execute" /\ last.stmt = "CreateTable" /\ ~last.ok
    /\ last.table = NameT
    /\ Len(last.values) = 2 /\ last.values[2].data_type = "Boolean"
    /\ DOMAIN tables = {NameU}
    /\ file # << >>

\* C18: create_index on a table that is not in the catalog, or on a column
\* the table's schema does not have, fails with NotFound and leaves the
\* indexes, the catalog and the file as they were.
C18_MissingTargetStep ==
    (/\ last'.op = "create_index"
     /\ \/ last'.table \notin DOMAIN tables
        \/ \A i \in 1..Len(tables[last'.table].columns) :
               tables[last'.table].columns[i].name # last'.col) =>
        /\ ~last'.ok
        /\ last'.err = "NotFound"
        /\ UNCHANGED << indexes, tables, file >>

C18_CreateIndexMissingTarget == [][C18_MissingTargetStep]_vars

\* create_index on column z of t failed while t has rows and an index on a,
\* and t has no index on z.
C18_Witness ==
    /\ last.op = "create_index" /\ ~last.ok
    /\ last.table = NameT /\ last.col = ColNoSuch
    /\ NameT \in DOMAIN tables
    /\ NameT \in DOMAIN indexes
    /\ DOMAIN indexes[NameT] = {ColA}
    /\ \E i \in 1..Len(inserted) : inserted[i].table = NameT

RECURSIVE LogShape(_, _, _)
\* How the records of file f lie from offset p on: "boundary" when they end
\* exactly at the end of the file, "cut" when the file ends inside a
\* record, "marker" when a record starts with a byte that is neither
\* marker, "payload" when a row of the table does not decode.
LogShape(f, p, t) ==
    LET RowEnds(name_at, name_len, e) ==
            IF e > Len(f) THEN "cut"
            ELSE IF SubSeq(f, name_at + 1, name_at + name_len) = t
                    /\ ~DeserializeRow(SubSeq(f, name_at + name_len + 5, e)).ok
            THEN "payload"
            ELSE LogShape(f, e, t)
        RowNamed(name_at, name_len) ==
            IF name_at + name_len + 4 > Len(f) THEN "cut"
            ELSE RowEnds(name_at, name_len,
                         name_at + name_len + 4
                         + FromLeBytes(SubSeq(f, name_at + name_len + 1,
                                              name_at + name_len + 4)))
        SchemaEnds(e) == IF e > Len(f) THEN "cut" ELSE LogShape(f, e, t)
    IN IF p = Len(f) THEN "boundary"
       ELSE IF f[p + 1] = SCHEMA_MARKER
       THEN IF p + 5 > Len(f) THEN "cut"
            ELSE SchemaEnds(p + 5 + FromLeBytes(SubSeq(f, p + 2, p + 5)))
       ELSE IF f[p + 1] = ROW_MARKER
       THEN IF p + 3 > Len(f) THEN "cut"
            ELSE RowNamed(p + 3, FromLeBytes(SubSeq(f, p + 2, p + 3)))
       ELSE "marker"

\* C19: scan succeeds when the file ends exactly on a record boundary, and
\* fails without rows when the file ends inside a record or a record
\* starts with a byte that is neither 0xFF nor 0xAA; the replay of
\* create_index does the same and stores no index when it fails.
C19_DamagedStep ==
    /\ (last'.op = "scan" /\ last'.table \in DOMAIN tables) =>
          \E shape \in {LogShape(file, 0, last'.table)} :
             /\ shape = "boundary" => last'.ok
             /\ shape \in {"cut", "marker"} =>
                   ~last'.ok /\ last'.rows = << >>
    /\ (/\ last'.op = "create_index"
        /\ last'.table \in DOMAIN tables
        /\ \E i \in 1..Len(tables[last'.table].columns) :
               tables[last'.table].columns[i].name = last'.col) =>
          \E shape \in {LogShape(file, 0, last'.table)} :
             /\ shape = "boundary" =>
                   /\ last'.ok
                   /\ last'.table \in DOMAIN indexes'
                   /\ last'.col \in DOMAIN indexes'[last'.table]
             /\ shape \in {"cut", "marker"} =>
                   ~last'.ok /\ indexes' = indexes

C19_ScanAndReplayOnDamagedLog == [][C19_DamagedStep]_vars

\* scan of t failed on a file that holds the first row of t whole and
\* ends inside the second row.
C19_Witness ==
    /\ last.op = "scan" /\ last.table = NameT /\ ~last.ok
    /\ NameT \in DOMAIN tables
    /\ \E k \in 1..(Len(WholeLog) - 1) :
          /\ file = SubSeq(WholeLog, 1, k)
          /\ \A o \in WholeLogBoundaries : o < k
    /\ LogShape(file, 0, NameT) = "cut"

RECURSIVE RowStarts(_, _)
\* The offsets from p on at which a row record of file f starts.
RowStarts(f, p) ==
    LET RowEnds(e) == IF e > Len(f) THEN {p} ELSE {p} \cup RowStarts(f, e)
        RowNamed(name_end) ==
            IF name_end + 4 > Len(f) THEN {p}
            ELSE RowEnds(name_end + 4
                         + FromLeBytes(SubSeq(f, name_end + 1, name_end + 4)))
        SchemaEnds(e) == IF e > Len(f) THEN {} ELSE RowStarts(f, e)
    IN IF p >= Len(f) THEN {}
       ELSE IF f[p + 1] = SCHEMA_MARKER
       THEN IF p + 5 > Len(f) THEN {}
            ELSE SchemaEnds(p + 5 + FromLeBytes(SubSeq(f, p + 2, p + 5)))
       ELSE IF f[p + 1] = ROW_MARKER
       THEN IF p + 3 > Len(f) THEN {p}
            ELSE RowNamed(p + 3 + FromLeBytes(SubSeq(f, p + 2, p + 3)))
       ELSE {}

\* C20: a read at an offset that is not the start of a row record fails,
\* and returns no row.
C20_PointReadStep ==
    (last'.op = "read_row_at_offset" /\ last'.off \notin RowStarts(file, 0)) =>
        ~last'.ok /\ last'.rows = << >>

C20_MisalignedReadFails == [][C20_PointReadStep]_vars

RECURSIVE RowRecordCount(_, _, _)
\* The number of row records of table t in file f from offset p on.
RowRecordCount(f, p, t) ==
    LET RowEnds(name_at, name_len, e) ==
            IF e > Len(f) THEN 0
            ELSE (IF SubSeq(f, name_at + 1, name_at + name_len) = t
                  THEN 1 ELSE 0) + RowRecordCount(f, e, t)
        RowNamed(name_at, name_len) ==
            IF name_at + name_len + 4 > Len(f) THEN 0
            ELSE RowEnds(name_at, name_len,
                         name_at + name_len + 4
                         + FromLeBytes(SubSeq(f, name_at + name_len + 1,
                                              name_at + name_len + 4)))
        SchemaEnds(e) == IF e > Len(f) THEN 0 ELSE RowRecordCount(f, e, t)
    IN IF p >= Len(f) THEN 0
       ELSE IF f[p + 1] = SCHEMA_MARKER
       THEN IF p + 5 > Len(f) THEN 0
            ELSE SchemaEnds(p + 5 + FromLeBytes(SubSeq(f, p + 2, p + 5)))
       ELSE IF f[p + 1] = ROW_MARKER
       THEN IF p + 3 > Len(f) THEN 0
            ELSE RowNamed(p + 3, FromLeBytes(SubSeq(f, p + 2, p + 3)))
       ELSE 0

RECURSIVE SchemaNames(_, _)
\* The table names of the schema records in file f from offset p on.
SchemaNames(f, p) ==
    LET RowEnds(e) == IF e > Len(f) THEN {} ELSE SchemaNames(f, e)
        RowNamed(name_end) ==
            IF name_end + 4 > Len(f) THEN {}
            ELSE RowEnds(name_end + 4
                         + FromLeBytes(SubSeq(f, name_end + 1, name_end + 4)))
        Named(name_len, e) ==
            IF e > Len(f) \/ p + 13 + name_len > e THEN {}
            ELSE {SubSeq(f, p + 14, p + 13 + name_len)} \cup SchemaNames(f, e)
        SchemaEnds(e) ==
            IF e > Len(f) THEN {}
            ELSE IF p + 13 > e THEN SchemaNames(f, e)
            ELSE Named(FromLeBytes(SubSeq(f, p + 6, p + 13)), e)
    IN IF p >= Len(f) THEN {}
       ELSE IF f[p + 1] = SCHEMA_MARKER
       THEN IF p + 5 > Len(f) THEN {}
            ELSE SchemaEnds(p + 5 + FromLeBytes(SubSeq(f, p + 2, p + 5)))
       ELSE IF f[p + 1] = ROW_MARKER
       THEN IF p + 3 > Len(f) THEN {}
            ELSE RowNamed(p + 3 + FromLeBytes(SubSeq(f, p + 2, p + 3)))
       ELSE {}

\* C21: in a session started on an empty file, the row_count of every table
\* of the catalog is the number of row records of the table in the file,
\* and the catalog holds exactly the names of the schema records in the file.
C21_CatalogMatchesLog ==
    /\ \A t \in DOMAIN tables : tables[t].row_count = RowRecordCount(file, 0, t)
    /\ DOMAIN tables = SchemaNames(file, 0)

\* C22 (as claimed): an INSERT statement whose row k > 1 is the first one
\* rejected returns an error; the records of rows 1..k-1 are appended to the
\* file and nothing else is, row_count grows by k-1, and each of these rows
\* is filed at the offset of its record in every index of the table.
C22_PartialInsertStep ==
    (last'.op = "execute" /\ last'.stmt = "Insert"
        /\ last'.table \in DOMAIN tables) =>
        \E rows \in {LeadingValid(tables[last'.table].columns, last'.values)} :
            (0 < Len(rows) /\ Len(rows) < Len(last'.values)) =>
                /\ ~last'.ok
                /\ file' = file \o RowRecords(last'.table, rows)
                /\ tables'[last'.table].row_count =
                       tables[last'.table].row_count + Len(rows)
                /\ last'.table \in DOMAIN indexes =>
                       \A c \in DOMAIN indexes[last'.table] :
                       \A j \in 1..Len(rows) :
                           RowHas(rows[j], indexes[last'.table][c].column_index) =>
                               \E key \in {ValueToString(
                                              RowGet(rows[j],
                                                  indexes[last'.table][c].column_index))} :
                                  /\ key \in DOMAIN indexes'[last'.table][c].index_map
                                  /\ \E n \in 1..Len(indexes'[last'.table][c].index_map[key]) :
                                        indexes'[last'.table][c].index_map[key][n] =
                                            Len(file) + Len(RowRecords(last'.table,
                                                                SubSeq(rows, 1, j - 1)))

C22_MultiRowInsertNotAtomic == [][C22_PartialInsertStep]_vars

\* The offset list under every key of every index strictly increases.
OffsetListsIncrease(ixs) ==
    \A t \in DOMAIN ixs : \A c \in DOMAIN ixs[t] :
        \A k \in DOMAIN ixs[t][c].index_map :
            \A i \in 1..(Len(ixs[t][c].index_map[k]) - 1) :
                ixs[t][c].index_map[k][i] < ixs[t][c].index_map[k][i + 1]

\* C23: in every index the offset list under each key strictly increases,
\* after the build and after every later insert, and a lookup served by
\* the index returns one row per offset of the list, the i-th row read at
\* the i-th offset, so that rows come in the order of their insertion:
\* of two offsets of the list that inserts returned, the earlier insert's
\* comes first.
C23_IndexOrderStep ==
    /\ OffsetListsIncrease(indexes')
    /\ (last'.op = "index_lookup" /\ last'.ok) =>
          \E offsets \in {indexes[last'.table][last'.col]
                              .index_map[ValueToString(last'.val)]} :
             /\ Len(last'.rows) = Len(offsets)
             /\ \A i \in 1..Len(offsets) :
                   last'.rows[i] = ReadRowAtOffset(file, offsets[i]).row
             /\ \A i \in 1..Len(offsets) : \A i2 \in (i + 1)..Len(offsets) :
                   \A j \in 1..Len(inserted) : \A j2 \in 1..Len(inserted) :
                      (/\ inserted[j].off = offsets[i]
                       /\ inserted[j2].off = offsets[i2]) => j < j2

C24_ReadFrameStep ==
    /\ last'.op \in {"scan", "index_lookup"} =>
          UNCHANGED << file, current_offset, tables, indexes >>
    /\ (last'.op = "create_index" /\ last'.ok) =>
          /\ UNCHANGED << file, current_offset, tables >>
          /\ DOMAIN indexes' = DOMAIN indexes \cup {last'.table}
          /\ \A t \in DOMAIN indexes :
                /\ DOMAIN indexes'[t] =
                       DOMAIN indexes[t]
                       \cup (IF t = last'.table THEN {last'.col} ELSE {})
                /\ \A c \in DOMAIN indexes[t] :
                      (t # last'.table \/ c # last'.col) =>
                          indexes'[t][c] = indexes[t][c]
          /\ last'.table \notin DOMAIN indexes =>
                DOMAIN indexes'[last'.table] = {last'.col}

C24_ReadsAndBuildsKeepTheRest == [][C24_ReadFrameStep]_vars

\* create_index on t.b succeeded on a table with a row, while t has an
\* index on a that holds the row and u has an index too.
C24_Witness ==
    /\ last.op = "create_index" /\ last.ok
    /\ last.table = NameT /\ last.col = ColB
    /\ DOMAIN indexes = {NameT, NameU}
    /\ DOMAIN indexes[NameT] = {ColA, ColB}
    /\ indexes[NameT][ColA].index_map # EmptyMap
    /\ indexes[NameT][ColB].index_map # EmptyMap

\* C25: a SELECT that reaches scan and filter with a comparison of a
\* column the table does not have succeeds: nosuch = NULL returns every row
\* of the table, and nosuch = lit, nosuch > lit and nosuch < lit with a
\* literal other than NULL return no row.
C25_AbsentColumnIsNull ==
    (/\ SelectedWhere
     /\ last.where[1].kind \in {"Eq", "Gt", "Lt"}
     /\ last.where[1].y[1].kind = "Identifier"
     /\ last.where[1].y[2].kind \in LiteralKinds
     /\ GetColumnIndex(tables[last.table].columns, last.where[1].y[1].y) < 0
     /\ last.where[1].kind = "Eq" => SqlValueToValue(last.where[1].y[2]).ok) =>
        \E all_rows \in {StScan(Storage, last.table)} :
            /\ last.ok /\ ~last.index_hit
            /\ (last.where[1].kind = "Eq" /\ last.where[1].y[2] = NullLit) =>
                   last.rows = all_rows.rows
            /\ last.where[1].y[2] # NullLit => last.rows = << >>

\* nosuch = NULL returned the two rows of a table whose rows have a value
\* in every column.
C25_Witness ==
    /\ SelectedWhere /\ last.ok
    /\ last.where[1] = BinaryOp(Identifier(ColNoSuch), "Eq", NullLit)
    /\ Len(last.rows) = 2
    /\ \A i \in 1..2 : \A k \in 1..Len(last.rows[i]) : last.rows[i][k] # NullV
    /\ last.rows = StScan(Storage, last.table).rows

====
